---- MODULE Spec2Model ----
(***************************************************************************)
(* A model of the escape-sequence scanner of package ansi                   *)
(* (DecodeSequence, parseOscCmd, the prefix tests and the Command and       *)
(* Parameter codecs of ansi/parser_decode.go).                              *)
(*                                                                          *)
(* Bytes are the integers 0..255, a buffer is a sequence of bytes, and a    *)
(* Go index i stands for the TLA+ index i+1.  A Go int is an integer; the   *)
(* values that occur stay inside the 32-bit range, where the bit            *)
(* operations of the code are written out arithmetically.                   *)
(***************************************************************************)
EXTENDS Integers, Sequences, FiniteSets, TLC

VARIABLES
    buf,      \* the bytes of the input stream
    cut,      \* the stream arrives in two reads: buf[1..cut], then the rest
    gc,       \* what the grapheme collaborator answers for this stream
    pos,      \* the number of bytes of buf the caller has consumed
    state,    \* the scanner state the caller carries between calls
    p,        \* the caller's *Parser
    log,      \* one record per DecodeSequence call made so far
    dead,     \* a call panicked: the caller's loop is over
    cin,      \* codec: the arguments handed to Cmd / Param
    cout,     \* codec: what the codec returned for cin
    mev,      \* mouse: the report handed to a mouse decoder
    mres,     \* mouse: the event the decoder returned for mev
    t,        \* vt: the *Terminal
    last,     \* vt: the last command dispatched to t and what it did
    ops       \* vt: the number of commands dispatched to t

vars == <<buf, cut, gc, pos, state, p, log, dead, cin, cout, mev, mres, t, last, ops>>

decVars == <<buf, cut, gc, pos, state, p, log, dead>>
codecVars == <<cin, cout>>
mouseVars == <<mev, mres>>
vtVars == <<t, last, ops>>

(***************************************************************************)
(* Bounds of the model.                                                     *)
(***************************************************************************)
MaxLen == 3        \* the longest input stream over Alphabet
MaxCoreLen == 4    \* the longest input stream over CoreAlphabet
ParamCap == 1      \* len(p.params) of the caller's parser
DataCap == 1       \* len(p.data) of the caller's parser

(***************************************************************************)
(* C0 / C1 control bytes (package ansi) and the scanner states.             *)
(***************************************************************************)
BEL == 7
CAN == 24
SUB == 26
ESC == 27
US == 31
DEL == 127
DCS == 144
SOS == 152
CSI == 155
ST == 156
OSC == 157
PM == 158
APC == 159

NormalState == 0
MarkerState == 1
ParamsState == 2
IntermedState == 3
EscapeState == 4
StringState == 5

(***************************************************************************)
(* Package parser: the bit layout of a packed command and parameter.        *)
(***************************************************************************)
MarkerShift == 8
IntermedShift == 16
CommandMask == 255
ParamMask == 2147483647
HasMoreFlag == (-2147483647) - 1
MissingParam == ParamMask
MissingCommand == MissingParam

Pow2(k) == 2 ^ k

\* x & 0xff for any Go int x.
LowByte(x) == x % (CommandMask + 1)

\* x & ParamMask for a Go int x of the 32-bit range.
AndParamMask(x) == IF x >= 0 THEN x ELSE (x + ParamMask) + 1

\* x | HasMoreFlag for a Go int x of the 32-bit range.
OrHasMore(x) == IF x >= 0 THEN (x - ParamMask) - 1 ELSE x

\* cmd with the byte at `shift` replaced by c:
\*   cmd &^= 0xff << shift ; cmd |= int(c) << shift
SetByte(cmd, shift, c) ==
    cmd - (LowByte(cmd \div Pow2(shift)) * Pow2(shift)) + c * Pow2(shift)

(***************************************************************************)
(* Command and Parameter (parser_decode.go, 406-475).                       *)
(***************************************************************************)
CmdMutKeepWide(marker, inter, cmd) ==
    cmd + LowByte(marker) * Pow2(MarkerShift) + LowByte(inter) * Pow2(IntermedShift)

Cmd(marker, inter, cmd) ==
    LowByte(cmd) + LowByte(marker) * Pow2(MarkerShift)
                 + LowByte(inter) * Pow2(IntermedShift)

Marker(c) == LowByte(c \div Pow2(MarkerShift))

Intermediate(c) == LowByte(c \div Pow2(IntermedShift))

Command(c) == LowByte(c)

ParamMutFlagLost(v, hasMore) == AndParamMask(v)

Param(v, hasMore) ==
    IF hasMore THEN OrHasMore(AndParamMask(v)) ELSE AndParamMask(v)

ParamValue(s, def) ==
    IF AndParamMask(s) = MissingParam THEN def ELSE AndParamMask(s)

\* s & HasMoreFlag != 0: HasMoreFlag is bit 31 and every bit above it.
HasMore(s) == s < 0

(***************************************************************************)
(* The parser context (package ansi, type Parser): params, paramsLen, cmd,  *)
(* data, dataLen.  NewParser allocates zeroed slices of the two sizes.      *)
(***************************************************************************)
NewParser(paramsSize, dataSize) ==
    [params    |-> [k \in 1..paramsSize |-> 0],
     paramsLen |-> 0,
     cmd       |-> 0,
     data      |-> [k \in 1..dataSize |-> 0],
     dataLen   |-> 0]

\* What a caller can read of the context: Cmd, Params[:paramsLen], Data[:dataLen].
\* A paramsLen past the capacity cannot be sliced and is shown as it is.
Visible(q) ==
    [cmd       |-> q.cmd,
     paramsLen |-> q.paramsLen,
     params    |-> IF q.paramsLen <= Len(q.params)
                   THEN SubSeq(q.params, 1, q.paramsLen) ELSE q.params,
     dataLen   |-> q.dataLen,
     data      |-> SubSeq(q.data, 1, q.dataLen)]

(***************************************************************************)
(* The prefix tests (parser_decode.go, 350-384).                            *)
(***************************************************************************)
HasOscPrefix(b) ==
    \/ Len(b) > 0 /\ b[1] = OSC
    \/ Len(b) > 1 /\ b[1] = ESC /\ b[2] = 93            \* ']'

HasDcsPrefix(b) ==
    \/ Len(b) > 0 /\ b[1] = DCS
    \/ Len(b) > 1 /\ b[1] = ESC /\ b[2] = 80            \* 'P'

HasStPrefix(b) ==
    \/ Len(b) > 0 /\ b[1] = ST
    \/ Len(b) > 1 /\ b[1] = ESC /\ b[2] = 92            \* '\'

\* b[i:] of Go.
From(b, i) == SubSeq(b, i + 1, Len(b))

\* utf8.RuneStart
RuneStart(c) == (c \div 64) % 4 # 2

(***************************************************************************)
(* parseOscCmd (parser_decode.go, 300-315).                                 *)
(***************************************************************************)
RECURSIVE OscDigits(_, _, _)
OscDigits(q, j, cmd) ==
    IF j >= q.dataLen THEN cmd
    ELSE LET d == q.data[j + 1] IN
         IF d < 48 \/ d > 57 THEN cmd
         ELSE OscDigits(q, j + 1,
                        (IF cmd = MissingCommand THEN 0 ELSE cmd) * 10 + (d - 48))

parseOscCmd(q) ==
    IF q.cmd # MissingCommand THEN q
    ELSE [q EXCEPT !.cmd = OscDigits(q, 0, q.cmd)]

(***************************************************************************)
(* DecodeSequence (parser_decode.go, 70-298).  A step handles byte b[i] in  *)
(* one state and either returns from the call (done) or goes on to b[i+1].  *)
(* ret names the return statement taken: "token" a completed token,         *)
(* "abort" one of the returns that leave the offending byte unread, "eob"   *)
(* the return at the end of the buffer, "panic" an index out of range.      *)
(* at is the case of the switch the call was in when it returned.           *)
(***************************************************************************)
Return(seq, width, n, newState, q, ret) ==
    [done |-> TRUE, seq |-> seq, width |-> width, n |-> n,
     state |-> newState, p |-> q, ret |-> ret, at |-> NormalState]

Continue(newState, q) ==
    [done |-> FALSE, seq |-> <<>>, width |-> 0, n |-> 0,
     state |-> newState, p |-> q, ret |-> "continue", at |-> NormalState]

Panic(st, q) == Return(<<>>, 0, 0, st, q, "panic")

\* lines 78-85, 89-96: a new ESC, CSI or DCS sequence.
ResetSeq(q) ==
    [q EXCEPT !.params = IF Len(q.params) > 0
                         THEN [q.params EXCEPT ![1] = MissingParam] ELSE q.params,
              !.cmd = 0, !.paramsLen = 0, !.dataLen = 0]

\* lines 214-220: ESC [ and ESC P (dataLen is left alone).
ResetCsi(q) ==
    [q EXCEPT !.params = IF Len(q.params) > 0
                         THEN [q.params EXCEPT ![1] = MissingParam] ELSE q.params,
              !.paramsLen = 0, !.cmd = 0]

\* lines 100-103, 224-227: a new string sequence.
ResetString(q) == [q EXCEPT !.cmd = MissingCommand, !.dataLen = 0]

\* lines 108-112
ResetText(q) == [q EXCEPT !.dataLen = 0, !.paramsLen = 0, !.cmd = 0]

\* FirstGraphemeCluster (uniseg): the collaborator's answer g for the buffer,
\* a cluster of at least one and at most Len(b) bytes and its width.
ClusterLen(b, g) == IF g.len < Len(b) THEN g.len ELSE Len(b)

\* case NormalState, lines 75-130
NormalStep(b, i, c, q, g) ==
    IF c = ESC THEN Continue(EscapeState, ResetSeq(q))
    ELSE IF c = CSI \/ c = DCS THEN Continue(MarkerState, ResetSeq(q))
    ELSE IF c \in {OSC, APC, SOS, PM} THEN Continue(StringState, ResetString(q))
    ELSE LET q1 == ResetText(q) IN
         IF c > US /\ c < DEL
         THEN Return(SubSeq(b, i + 1, i + 1), 1, 1, NormalState, q1, "token")
         ELSE IF c <= US \/ c = DEL \/ c < 192
         THEN Return(SubSeq(b, i + 1, i + 1), 0, 1, NormalState, q1, "token")
         ELSE IF RuneStart(c)
         THEN LET k == i + ClusterLen(b, g) IN
              Return(SubSeq(b, 1, k), g.width, k, NormalState, q1, "grapheme")
         ELSE Return(SubSeq(b, 1, i), 0, i, NormalState, q1, "invalid")

\* The returns that leave b[i] unread: lines 210, 247, 262, 282.
AbortMutConsume(b, i, q) == Return(SubSeq(b, 1, i + 1), 0, i + 1, NormalState, q, "abort")

AbortMutWidth(b, i, q) == Return(SubSeq(b, 1, i), 1, i, NormalState, q, "abort")

Abort(b, i, q) == Return(SubSeq(b, 1, i), 0, i, NormalState, q, "abort")

\* The returns of a finished sequence ending at b[k-1]: lines 206, 243, 253, 269, 278.
Token(b, k, q) == Return(SubSeq(b, 1, k), 0, k, NormalState, q, "token")

\* lines 183-189: count the last parameter
FinishParams(q) ==
    IF \/ q.paramsLen > 0 /\ q.paramsLen < Len(q.params) - 1
       \/ q.paramsLen = 0 /\ Len(q.params) > 0 /\ q.params[1] # MissingParam
    THEN [q EXCEPT !.paramsLen = q.paramsLen + 1]
    ELSE q

\* case IntermedState, lines 174-210
IntermedStep(b, i, c, q) ==
    IF c >= 32 /\ c <= 47
    THEN Continue(IntermedState, [q EXCEPT !.cmd = SetByte(q.cmd, IntermedShift, c)])
    ELSE LET q1 == FinishParams(q) IN
         IF c >= 64 /\ c <= 126
         THEN LET q2 == [q1 EXCEPT !.cmd = SetByte(q1.cmd, 0, c)] IN
              IF HasDcsPrefix(b)
              THEN Continue(StringState, [q2 EXCEPT !.dataLen = 0])
              ELSE Token(b, i + 1, q2)
         ELSE Abort(b, i, q1)

\* p.params[p.paramsLen] is an index out of range
BadSlot(q) == q.paramsLen < 0 \/ q.paramsLen >= Len(q.params)

\* lines 163-168
NextParam(q) ==
    LET n1 == q.paramsLen + 1 IN
    [q EXCEPT !.paramsLen = n1,
              !.params = IF n1 < Len(q.params)
                         THEN [q.params EXCEPT ![n1 + 1] = MissingParam]
                         ELSE q.params]

\* lines 146-151
AddDigit(q, c) ==
    LET k == q.paramsLen + 1
        v == IF q.params[k] = MissingParam THEN 0 ELSE q.params[k]
    IN [q EXCEPT !.params = [q.params EXCEPT ![k] = v * 10 + (c - 48)]]

\* case ParamsState, lines 143-173
ParamsStep(b, i, c, q) ==
    IF c >= 48 /\ c <= 57
    THEN IF BadSlot(q) THEN Panic(ParamsState, q)
         ELSE Continue(ParamsState, AddDigit(q, c))
    ELSE IF c = 58                                       \* ':'
    THEN IF BadSlot(q) THEN Panic(ParamsState, q)
         ELSE Continue(ParamsState,
                NextParam([q EXCEPT !.params =
                    [q.params EXCEPT ![q.paramsLen + 1] = OrHasMore(q.params[q.paramsLen + 1])]]))
    ELSE IF c = 59                                       \* ';'
    THEN Continue(ParamsState, NextParam(q))
    ELSE IntermedStep(b, i, c, q)

\* MarkerStep keeping the first marker
MarkerStepMutFirst(b, i, c, q) ==
    IF c >= 60 /\ c <= 63
    THEN Continue(MarkerState,
                  IF Marker(q.cmd) = 0
                  THEN [q EXCEPT !.cmd = SetByte(q.cmd, MarkerShift, c)] ELSE q)
    ELSE ParamsStep(b, i, c, q)

\* case MarkerState, lines 131-142
MarkerStep(b, i, c, q) ==
    IF c >= 60 /\ c <= 63
    THEN Continue(MarkerState, [q EXCEPT !.cmd = SetByte(q.cmd, MarkerShift, c)])
    ELSE ParamsStep(b, i, c, q)

\* case EscapeState, lines 211-247
EscapeStep(b, i, c, q) ==
    IF c = 91 \/ c = 80                                  \* '[', 'P'
    THEN Continue(MarkerState, ResetCsi(q))
    ELSE IF c \in {93, 88, 94, 95}                       \* ']', 'X', '^', '_'
    THEN Continue(StringState, ResetString(q))
    ELSE IF c >= 32 /\ c <= 47
    THEN Continue(EscapeState, [q EXCEPT !.cmd = SetByte(q.cmd, IntermedShift, c)])
    ELSE IF c >= 48 /\ c <= 126
    THEN Token(b, i + 1, [q EXCEPT !.cmd = SetByte(q.cmd, 0, c)])
    ELSE Abort(b, i, q)

CollectMutOffByOne(b, c, q) ==
    IF q.dataLen <= Len(q.data)
    THEN LET q1 == [q EXCEPT !.data = IF q.dataLen < Len(q.data)
                                       THEN [q.data EXCEPT ![q.dataLen + 1] = c]
                                       ELSE q.data,
                             !.dataLen = q.dataLen + 1]
         IN IF c = 59 /\ HasOscPrefix(b) THEN parseOscCmd(q1) ELSE q1
    ELSE q

\* lines 285-293
Collect(b, c, q) ==
    IF q.dataLen < Len(q.data)
    THEN LET q1 == [q EXCEPT !.data = [q.data EXCEPT ![q.dataLen + 1] = c],
                             !.dataLen = q.dataLen + 1]
         IN IF c = 59 /\ HasOscPrefix(b) THEN parseOscCmd(q1) ELSE q1
    ELSE q

BelStepMutAlways(b, i, c, q) ==
    Token(b, i + 1, IF HasOscPrefix(b) THEN parseOscCmd(q) ELSE q)

\* lines 250-254: BEL
BelStep(b, i, c, q) ==
    IF HasOscPrefix(b) THEN Token(b, i + 1, parseOscCmd(q))
    ELSE Continue(StringState, Collect(b, c, q))

\* case StringState, lines 248-294
StringStep(b, i, c, q) ==
    LET q1 == IF HasOscPrefix(b) THEN parseOscCmd(q) ELSE q IN
    IF c = BEL THEN BelStep(b, i, c, q)
    ELSE IF c = CAN \/ c = SUB THEN Abort(b, i, q1)
    ELSE IF c = ST THEN Token(b, i + 1, q1)
    ELSE IF c = ESC
    THEN IF HasStPrefix(From(b, i)) THEN Token(b, i + 2, q1) ELSE Abort(b, i, q)
    ELSE Continue(StringState, Collect(b, c, q))

Step(b, i, st, q, g) ==
    LET c == b[i + 1] IN
    CASE st = NormalState   -> NormalStep(b, i, c, q, g)
      [] st = MarkerState   -> MarkerStep(b, i, c, q)
      [] st = ParamsState   -> ParamsStep(b, i, c, q)
      [] st = IntermedState -> IntermedStep(b, i, c, q)
      [] st = EscapeState   -> EscapeStep(b, i, c, q)
      [] st = StringState   -> StringStep(b, i, c, q)
      [] OTHER              -> Continue(st, q)

\* the loop of lines 71-297
RECURSIVE Scan(_, _, _, _, _)
Scan(b, i, st, q, g) ==
    IF i >= Len(b) THEN [Return(b, 0, Len(b), st, q, "eob") EXCEPT !.at = st]
    ELSE LET r == Step(b, i, st, q, g) IN
         IF r.done THEN [r EXCEPT !.at = st] ELSE Scan(b, i + 1, r.state, r.p, g)

DecodeSequence(b, st, q, g) == Scan(b, 0, st, q, g)

(***************************************************************************)
(* The caller: the loop of the documentation example (lines 61-69), reading *)
(* the stream in two parts.  Each call gets the bytes read and not yet      *)
(* consumed, the state the last call returned, and the same parser.         *)
(***************************************************************************)
Alphabet ==
    {BEL, CAN, ESC, CSI, DCS, ST, OSC, APC,
     32,      \* ' '  an intermediate byte, and printable
     49,      \* '1'
     58,      \* ':'
     59,      \* ';'
     63,      \* '?'  a marker
     80,      \* 'P'
     91,      \* '['
     92,      \* '\'
     93,      \* ']'
     109,     \* 'm'
     195}     \* a UTF-8 lead byte

\* The bytes of the longer streams.
CoreAlphabet == {BEL, ESC, CSI, DCS, OSC, 49, 59, 92, 109}

Inputs ==
    UNION ({[1..n -> Alphabet] : n \in 1..MaxLen}
           \cup {[1..n -> CoreAlphabet] : n \in 1..MaxCoreLen})

NoCluster == [len |-> 1, width |-> 0]

ClusterAnswers == {[len |-> 1, width |-> 1], [len |-> 2, width |-> 2]}

NoCodec == [op |-> "none"]
NoMouse == [op |-> "none"]

\* no terminal is part of the run
NoTerminal == t = [op |-> "none"] /\ last = [op |-> "none"] /\ ops = 0

Available == IF pos < cut THEN SubSeq(buf, pos + 1, cut) ELSE SubSeq(buf, pos + 1, Len(buf))

Entry(b, r) ==
    [b |-> b, from |-> state, ret |-> r.ret, at |-> r.at, seq |-> r.seq,
     width |-> r.width, n |-> r.n, state |-> r.state, p |-> r.p]

Call ==
    LET b == Available
        r == DecodeSequence(b, state, p, gc)
    IN /\ log' = Append(log, Entry(b, r))
       /\ p' = r.p
       /\ IF r.ret = "panic"
          THEN dead' = TRUE /\ UNCHANGED <<pos, state>>
          ELSE /\ pos' = pos + r.n
               /\ state' = r.state
               /\ UNCHANGED dead
       /\ UNCHANGED <<buf, cut, gc, codecVars, mouseVars, vtVars>>

\* a call on bytes of the first read
CallFirst == ~dead /\ pos < cut /\ Call

\* a call once the rest of the stream has been read
CallRest == ~dead /\ cut <= pos /\ pos < Len(buf) /\ Call

Init ==
    /\ buf \in Inputs
    /\ cut \in 1..Len(buf)
    /\ gc \in IF \E k \in DOMAIN buf : buf[k] >= 192 THEN ClusterAnswers ELSE {NoCluster}
    /\ pos = 0
    /\ state = NormalState
    /\ p = NewParser(ParamCap, DataCap)
    /\ log = <<>>
    /\ dead = FALSE
    /\ cin = NoCodec
    /\ cout = NoCodec
    /\ mev = NoMouse
    /\ mres = NoMouse
    /\ NoTerminal

Next == CallFirst \/ CallRest

Spec == Init /\ [][Next]_vars

(***************************************************************************)
(* The codec on its own: a caller packs a command or a parameter and reads  *)
(* it back through the Command and Parameter methods.                       *)
(***************************************************************************)
\* every byte class of a sequence, and integers wider than a byte
CodecInts == {0, 1, 32, 47, 48, 60, 63, 64, 109, 126, 127, 128, 255,
              256, 300, 65599, -1}

ParamInts == {0, 1, 9, 255, 65535, 65536, 2147483646}

Defaults == {0, 1, 7}

CodecInputs ==
    [op : {"Cmd"}, marker : CodecInts, inter : CodecInts, final : CodecInts]
    \cup [op : {"Param"}, v : ParamInts, hasMore : BOOLEAN, def : Defaults]
    \cup [op : {"Missing"}, hasMore : BOOLEAN, def : Defaults]

\* c := Cmd(marker, inter, final); c.Marker(), c.Intermediate(), c.Command()
PackCmd ==
    /\ cin.op = "Cmd" /\ cout = NoCodec
    /\ LET c == Cmd(cin.marker, cin.inter, cin.final) IN
       cout' = [op |-> "Cmd", c |-> c, marker |-> Marker(c),
                inter |-> Intermediate(c), final |-> Command(c)]
    /\ UNCHANGED <<cin, decVars, mouseVars, vtVars>>

\* s := Param(v, hasMore); s.Param(def), s.HasMore()
PackParam ==
    /\ cin.op = "Param" /\ cout = NoCodec
    /\ LET s == Param(cin.v, cin.hasMore) IN
       cout' = [op |-> "Param", s |-> s, value |-> ParamValue(s, cin.def),
                hasMore |-> HasMore(s)]
    /\ UNCHANGED <<cin, decVars, mouseVars, vtVars>>

\* a slot the scanner left at parser.MissingParam, with or without the flag
ReadMissing ==
    /\ cin.op = "Missing" /\ cout = NoCodec
    /\ LET s == IF cin.hasMore THEN OrHasMore(MissingParam) ELSE MissingParam IN
       cout' = [op |-> "Missing", s |-> s, value |-> ParamValue(s, cin.def),
                hasMore |-> HasMore(s)]
    /\ UNCHANGED <<cin, decVars, mouseVars, vtVars>>

CodecInit ==
    /\ cin \in CodecInputs
    /\ cout = NoCodec
    /\ buf = <<>> /\ cut = 0 /\ gc = NoCluster /\ pos = 0
    /\ state = NormalState
    /\ p = NewParser(ParamCap, DataCap)
    /\ log = <<>>
    /\ dead = FALSE
    /\ mev = NoMouse
    /\ mres = NoMouse
    /\ NoTerminal

CodecNext == PackCmd \/ PackParam \/ ReadMissing

SpecCodec == CodecInit /\ [][CodecNext]_vars

ParamRoundTrip ==
    /\ cout.op = "Param" =>
          (cout.value = cin.v /\ cout.hasMore = cin.hasMore)
    /\ cout.op = "Missing" =>
          (cout.value = cin.def /\ cout.hasMore = cin.hasMore)

ParamRoundTripWitness ==
    /\ cout.op = "Param" /\ cin.v = 65535 /\ cin.hasMore /\ cin.def = 7
    /\ cout.value = 65535 /\ cout.hasMore

(***************************************************************************)
(* What the properties of the scanner are stated with.                      *)
(***************************************************************************)
\* what a call hands back to its caller
Outcome(r) ==
    [ret |-> r.ret, seq |-> r.seq, width |-> r.width, n |-> r.n, state |-> r.state]

Fresh == NewParser(ParamCap, DataCap)

\* The grammar of a sequence, byte by byte: where a reader of the sequence
\* stands (st) and whether the sequence is a DCS (dcs).
GramInit == [st |-> "start", dcs |-> FALSE]

GramInt(g, c) ==
    IF c >= 32 /\ c <= 47 THEN [g EXCEPT !.st = "int"]
    ELSE IF c >= 64 /\ c <= 126
    THEN [g EXCEPT !.st = IF g.dcs THEN "str" ELSE "done"]
    ELSE [g EXCEPT !.st = "bad"]

GramPar(g, c) ==
    IF c >= 48 /\ c <= 59 THEN [g EXCEPT !.st = "par"] ELSE GramInt(g, c)

GramStep(g, c) ==
    CASE g.st = "start" ->
           IF c = ESC THEN [g EXCEPT !.st = "esc"]
           ELSE IF c = CSI THEN [st |-> "mark", dcs |-> FALSE]
           ELSE IF c = DCS THEN [st |-> "mark", dcs |-> TRUE]
           ELSE IF c \in {OSC, APC, SOS, PM} THEN [g EXCEPT !.st = "str"]
           ELSE [g EXCEPT !.st = "text"]
      [] g.st = "esc" ->
           IF c = 91 THEN [st |-> "mark", dcs |-> FALSE]
           ELSE IF c = 80 THEN [st |-> "mark", dcs |-> TRUE]
           ELSE IF c \in {93, 88, 94, 95} THEN [g EXCEPT !.st = "str"]
           ELSE IF c >= 32 /\ c <= 47 THEN g
           ELSE IF c >= 48 /\ c <= 126 THEN [g EXCEPT !.st = "done"]
           ELSE [g EXCEPT !.st = "bad"]
      [] g.st = "mark" ->
           IF c >= 60 /\ c <= 63 THEN g ELSE GramPar(g, c)
      [] g.st = "par" -> GramPar(g, c)
      [] g.st = "int" -> GramInt(g, c)
      [] g.st = "str" ->
           IF c = BEL \/ c = ST THEN [g EXCEPT !.st = "done"]
           ELSE IF c = CAN \/ c = SUB THEN [g EXCEPT !.st = "bad"]
           ELSE IF c = ESC THEN [g EXCEPT !.st = "st7"]
           ELSE g
      [] g.st = "st7" ->
           IF c = 92 THEN [g EXCEPT !.st = "done"] ELSE [g EXCEPT !.st = "bad"]
      [] OTHER -> [g EXCEPT !.st = "over"]

RECURSIVE GramRun(_, _, _)
GramRun(b, j, g) == IF j > Len(b) THEN g ELSE GramRun(b, j + 1, GramStep(g, b[j]))

\* b is a valid sequence from its introducer to its last byte
CompleteSeq(b) == GramRun(b, 1, GramInit).st = "done"

\* b is the beginning of a valid sequence and ends before the sequence does
ProperSeqPrefix(b) ==
    GramRun(b, 1, GramInit).st \in {"esc", "mark", "par", "int", "str", "st7"}

\* b is a complete CSI, ESC or DCS sequence, the kinds that carry parameters
IsCsiOrDcs(b) ==
    \/ b[1] \in {CSI, DCS}
    \/ Len(b) > 1 /\ b[1] = ESC /\ b[2] \in {91, 80}

(***************************************************************************)
(* C1: a valid complete sequence read in two parts ends as it does read in  *)
(* one call: NormalState, the same bytes consumed in all, the same width    *)
(* and the same visible parser context.                                     *)
(***************************************************************************)
Resumability ==
    LET w == DecodeSequence(buf, NormalState, Fresh, gc) IN
    (/\ Len(log) >= 2 /\ cut < Len(buf) /\ log[1].n = cut
     /\ CompleteSeq(buf)
     /\ w.ret = "token" /\ w.n = Len(buf))
    => /\ log[2].state = NormalState
       /\ log[1].n + log[2].n = w.n
       /\ log[2].width = w.width
       /\ Visible(log[2].p) = Visible(w.p)

(***************************************************************************)
(* C2: a call that aborts returns the offset of the offending byte, the     *)
(* bytes before it as the token and NormalState, and the next call, which   *)
(* starts at that byte, hands back what a call with a new parser would.     *)
(***************************************************************************)
Offending(b, n, at) ==
    LET c == b[n + 1] IN
    CASE at = EscapeState   -> c < 32 \/ c > 126
      [] at = MarkerState   -> c < 32 \/ c > 126
      [] at = ParamsState   -> c < 32 \/ (c >= 60 /\ c <= 63) \/ c > 126
      [] at = IntermedState -> c < 32 \/ (c >= 48 /\ c <= 63) \/ c > 126
      [] at = StringState   ->
            \/ c = CAN \/ c = SUB
            \/ c = ESC /\ (n + 2 > Len(b) \/ b[n + 2] # 92)
      [] OTHER -> FALSE

NonConsumption ==
    \A k \in DOMAIN log :
        log[k].ret = "abort" =>
            LET e == log[k] IN
            /\ e.n < Len(e.b)
            /\ Offending(e.b, e.n, e.at)
            /\ e.seq = SubSeq(e.b, 1, e.n)
            /\ e.state = NormalState
            /\ k < Len(log) =>
                 LET f == log[k + 1] IN
                 /\ f.from = NormalState
                 /\ f.b[1] = e.b[e.n + 1]
                 /\ Outcome(f) = Outcome(DecodeSequence(f.b, NormalState, Fresh, gc))

\* a string sequence cancelled after two bytes, and the call that follows
NonConsumptionWitness ==
    \E k \in DOMAIN log :
        /\ log[k].ret = "abort" /\ log[k].at = StringState /\ log[k].n >= 2
        /\ k < Len(log) /\ log[k + 1].n >= 1

(***************************************************************************)
(* C3: a call from NormalState on a buffer that ends inside a valid         *)
(* sequence consumes the whole buffer and returns a state other than        *)
(* NormalState.                                                             *)
(***************************************************************************)
TruncatedSuspends ==
    \A k \in DOMAIN log :
        LET e == log[k] IN
        (e.from = NormalState /\ e.ret # "panic" /\ ProperSeqPrefix(e.b))
            => (e.n = Len(e.b) /\ e.state # NormalState)

(***************************************************************************)
(* C4: the parser's parameter count never exceeds its capacity.             *)
(***************************************************************************)
ParamsLenBounded == p.paramsLen <= Len(p.params)

(***************************************************************************)
(* C5: no call indexes a parameter slot out of range, and a complete CSI or *)
(* DCS sequence is returned whole, with NormalState, however many           *)
(* parameters it carries.                                                   *)
(***************************************************************************)
ParamOverflowHarmless ==
    \A k \in DOMAIN log :
        LET e == log[k] IN
        /\ e.ret # "panic"
        /\ (e.from = NormalState /\ IsCsiOrDcs(e.b) /\ CompleteSeq(e.b))
             => (e.ret = "token" /\ e.n = Len(e.b) /\ e.state = NormalState)

(***************************************************************************)
(* C6: the data length never exceeds the data capacity, the data kept are   *)
(* the first bytes of the payload, and every call hands back what it would  *)
(* with a data buffer that never fills.                                     *)
(***************************************************************************)
Roomy == NewParser(ParamCap, DataCap + MaxLen + MaxCoreLen)

\* call k of the log, made with the parser whose data buffer never fills
RECURSIVE Replay(_)
Replay(k) ==
    DecodeSequence(log[k].b, log[k].from,
                   IF k = 1 THEN Roomy ELSE Replay(k - 1).p, gc)

Shorter(a, b) == IF a < b THEN a ELSE b

DataOverflowDropped ==
    /\ p.dataLen <= Len(p.data)
    /\ \A k \in DOMAIN log :
         LET e == log[k]
             r == Replay(k)
         IN /\ e.p.dataLen <= Len(e.p.data)
            /\ Outcome(e) = Outcome(r)
            /\ e.p.dataLen = Shorter(r.p.dataLen, Len(e.p.data))
            /\ SubSeq(e.p.data, 1, e.p.dataLen) = SubSeq(r.p.data, 1, e.p.dataLen)

\* an OSC whose payload is longer than the data buffer, ended by its terminator
DataOverflowWitness ==
    \E k \in DOMAIN log :
        /\ log[k].from = NormalState /\ log[k].ret = "token"
        /\ HasOscPrefix(log[k].b)
        /\ Replay(k).p.dataLen > DataCap
        /\ log[k].p.dataLen = DataCap

(***************************************************************************)
(* C9: the width a call returns is 1 for one printable ASCII byte decoded   *)
(* from NormalState and 0 for a control character, a completed sequence, an *)
(* aborted sequence and an unfinished one.                                  *)
(***************************************************************************)
WidthRule ==
    \A k \in DOMAIN log :
        LET e == log[k] IN
        (e.ret \notin {"grapheme", "panic"}) =>
            IF e.from = NormalState /\ e.b[1] > US /\ e.b[1] < DEL
            THEN e.width = 1 /\ e.n = 1 /\ e.seq = <<e.b[1]>>
            ELSE e.width = 0

\* an aborted CSI, then the control byte that ended it, then a printable byte
WidthWitness ==
    /\ Len(log) = 3
    /\ log[1].ret = "abort" /\ log[1].width = 0
    /\ log[2].ret = "token" /\ log[2].b[1] = BEL /\ log[2].width = 0
    /\ log[3].ret = "token" /\ log[3].b[1] = 109 /\ log[3].width = 1

(***************************************************************************)
(* C10: a BEL met in String state.                                          *)
(***************************************************************************)
\* the offset just past the final byte of a DCS header whose markers,
\* parameters and intermediates start at offset j, or -1
RECURSIVE DcsHeaderEnd(_, _, _)
DcsHeaderEnd(b, j, g) ==
    IF j >= Len(b) THEN -1
    ELSE LET h == GramStep(g, b[j + 1]) IN
         IF h.st = "str" THEN j + 1
         ELSE IF h.st \in {"mark", "par", "int"} THEN DcsHeaderEnd(b, j + 1, h)
         ELSE -1

\* the offset of the first byte that a call on b from state `from` handles in
\* StringState, or -1
StringFrom(b, from) ==
    IF from = StringState THEN 0
    ELSE IF from # NormalState THEN -1
    ELSE IF b[1] \in {OSC, APC, SOS, PM} THEN 1
    ELSE IF Len(b) > 1 /\ b[1] = ESC /\ b[2] \in {93, 88, 94, 95} THEN 2
    ELSE IF b[1] = DCS THEN DcsHeaderEnd(b, 1, [st |-> "mark", dcs |-> TRUE])
    ELSE IF Len(b) > 1 /\ b[1] = ESC /\ b[2] = 80
    THEN DcsHeaderEnd(b, 2, [st |-> "mark", dcs |-> TRUE])
    ELSE -1

\* the offset of the first of BEL, CAN, SUB, ST, ESC at or after offset j, or -1
RECURSIVE FirstStop(_, _)
FirstStop(b, j) ==
    IF j < 0 \/ j >= Len(b) THEN -1
    ELSE IF b[j + 1] \in {BEL, CAN, SUB, ST, ESC} THEN j
    ELSE FirstStop(b, j + 1)

\* call e meets a BEL in String state, before any other byte that ends a string
BelAt(e) ==
    LET j == FirstStop(e.b, StringFrom(e.b, e.from)) IN
    IF j >= 0 /\ e.b[j + 1] = BEL THEN j ELSE -1

\* the number the payload starts with, or the missing command
RECURSIVE LeadingNumber(_, _, _)
LeadingNumber(d, j, acc) ==
    IF j > Len(d) \/ d[j] < 48 \/ d[j] > 57 THEN acc
    ELSE LeadingNumber(d, j + 1, (IF acc = MissingCommand THEN 0 ELSE acc) * 10 + (d[j] - 48))

OscPayload(b) ==
    IF b[1] = OSC THEN SubSeq(b, 2, Len(b)) ELSE SubSeq(b, 3, Len(b))

OscCommandNumber ==
    /\ (CompleteSeq(buf) /\ HasOscPrefix(buf) /\ pos = Len(buf))
         => p.cmd = LeadingNumber(OscPayload(buf), 1, MissingCommand)
    /\ \A k \in DOMAIN log :
         (/\ k > 1 /\ log[k].from = StringState /\ log[k].ret # "panic"
          /\ HasOscPrefix(log[k - 1].b) /\ log[k - 1].from = NormalState
          /\ log[k - 1].p.cmd # MissingCommand)
         => log[k].p.cmd = log[k - 1].p.cmd

(***************************************************************************)
(* The mouse decoders of package input.  The reports are built as the       *)
(* tests of input/mouse_test.go build them; parseX10MouseEvent and          *)
(* parseSGRMouseEvent follow the description of the two wire formats.       *)
(***************************************************************************)
\* Go's byte(v) for v >= 0
Byte(v) == v % 256

PrefixShift == 8

\* encode of TestParseX10MouseDownEvent, with the button byte off by the base
X10EncodeMutNoBase(b, x, y) ==
    <<ESC, 91, 77, Byte(b), Byte(x + 32 + 1), Byte(y + 32 + 1)>>

\* encode of TestParseX10MouseDownEvent, with the coordinates off by one
X10EncodeMutOffByOne(b, x, y) ==
    <<ESC, 91, 77, Byte(32 + b), Byte(x + 32), Byte(y + 32)>>

\* encode of TestParseX10MouseDownEvent
X10Encode(b, x, y) ==
    <<ESC, 91, 77, Byte(32 + b), Byte(x + 32 + 1), Byte(y + 32 + 1)>>

\* encode of TestParseSGRMouseEvent, with the release flag dropped
SgrEncodeMutNoRelease(b, x, y, r) ==
    [params |-> <<b, x + 1, y + 1>>, cmd |-> 77 + 60 * Pow2(PrefixShift)]

\* encode of TestParseSGRMouseEvent
SgrEncode(b, x, y, r) ==
    [params |-> <<b, x + 1, y + 1>>,
     cmd |-> (IF r THEN 109 ELSE 77) + 60 * Pow2(PrefixShift)]

\* bit m (a power of two) of b is set
HasBit(b, m) == (b \div m) % 2 = 1

\* the modifiers in a button value
Mods(b) ==
    (IF HasBit(b, 4) THEN {"shift"} ELSE {})
    \cup (IF HasBit(b, 8) THEN {"alt"} ELSE {})
    \cup (IF HasBit(b, 16) THEN {"ctrl"} ELSE {})

BaseButton(b) == <<"left", "middle", "right", "none">>[(b % 4) + 1]
WheelButton(b) == <<"wheelup", "wheeldown", "wheelleft", "wheelright">>[(b % 4) + 1]
ExtraButton(b) == <<"backward", "forward", "button10", "button11">>[(b % 4) + 1]

\* The readings of a button value.  The wheel bit and the extended-button bit
\* each give bits 0-1 a meaning of their own; the format does not say which
\* one holds when both are set, so both readings are kept.
MouseButtons(b) ==
    LET whl == [btn |-> WheelButton(b), isWheel |-> TRUE]
        ext == [btn |-> ExtraButton(b), isWheel |-> FALSE]
        bas == [btn |-> BaseButton(b), isWheel |-> FALSE]
        cands == IF HasBit(b, 64) /\ HasBit(b, 128) THEN {whl, ext}
                 ELSE IF HasBit(b, 64) THEN {whl}
                 ELSE IF HasBit(b, 128) THEN {ext}
                 ELSE {bas}
    IN {[mod |-> Mods(b), btn |-> a.btn, isWheel |-> a.isWheel,
         isMotion |-> HasBit(b, 32), isRelease |-> a.btn = "none"] : a \in cands}

MouseEvent(type, x, y, d) ==
    [op |-> "event", type |-> type, x |-> x, y |-> y, button |-> d.btn, mod |-> d.mod]

\* the events a 6-byte X10 report ESC [ M B X Y may decode to
parseX10MouseEvent(b) ==
    LET x == b[5] - 32 - 1
        y == b[6] - 32 - 1
    IN {MouseEvent(IF d.isWheel THEN "Wheel"
                   ELSE IF d.isMotion THEN "Motion"
                   ELSE IF d.isRelease THEN "Release"
                   ELSE "Click", x, y, d) : d \in MouseButtons(b[4] - 32)}

\* the events an SGR report CSI < Cb ; Cx ; Cy M|m may decode to
parseSGRMouseEvent(cmd, params) ==
    LET x == params[2] - 1
        y == params[3] - 1
        release == Command(cmd) = 109
    IN {MouseEvent(IF release THEN "Release"
                   ELSE IF d.isWheel THEN "Wheel"
                   ELSE IF d.isMotion THEN "Motion"
                   ELSE "Click", x, y, d) : d \in MouseButtons(params[1])}

\* the reports handed to the decoders: every button value a report can carry,
\* at positions on both sides of the 8-bit limit of the X10 form
X10Buttons == 0..223
SgrButtons == 0..255
MouseXs == {0, 32, 222, 223, 250, 255}
MouseYs == {0, 16, 222, 223, 255}

MouseInputs ==
    [op : {"X10"}, b : X10Buttons, x : MouseXs, y : MouseYs]
    \cup [op : {"SGR"}, b : SgrButtons, x : {0, 32, 225, 250}, y : {0, 16, 225},
          r : BOOLEAN]

DecodeX10 ==
    /\ mev.op = "X10" /\ mres = NoMouse
    /\ mres' \in parseX10MouseEvent(X10Encode(mev.b, mev.x, mev.y))
    /\ UNCHANGED <<mev, decVars, codecVars, vtVars>>

DecodeSGR ==
    /\ mev.op = "SGR" /\ mres = NoMouse
    /\ LET s == SgrEncode(mev.b, mev.x, mev.y, mev.r) IN
       mres' \in parseSGRMouseEvent(s.cmd, s.params)
    /\ UNCHANGED <<mev, decVars, codecVars, vtVars>>

MouseInit ==
    /\ mev \in MouseInputs
    /\ mres = NoMouse
    /\ buf = <<>> /\ cut = 0 /\ gc = NoCluster /\ pos = 0
    /\ state = NormalState
    /\ p = NewParser(ParamCap, DataCap)
    /\ log = <<>>
    /\ dead = FALSE
    /\ cin = NoCodec
    /\ cout = NoCodec
    /\ NoTerminal

MouseNext == DecodeX10 \/ DecodeSGR

SpecMouse == MouseInit /\ [][MouseNext]_vars

\* what the cases of TestParseX10MouseDownEvent expect of a button value
X10TestCases ==
    {<<0, "Click", "left", {}>>, <<32, "Motion", "left", {}>>,
     <<1, "Click", "middle", {}>>, <<33, "Motion", "middle", {}>>,
     <<2, "Click", "right", {}>>, <<34, "Motion", "right", {}>>,
     <<35, "Motion", "none", {}>>,
     <<64, "Wheel", "wheelup", {}>>, <<65, "Wheel", "wheeldown", {}>>,
     <<66, "Wheel", "wheelleft", {}>>, <<67, "Wheel", "wheelright", {}>>,
     <<3, "Release", "none", {}>>,
     <<128, "Click", "backward", {}>>, <<129, "Click", "forward", {}>>,
     <<130, "Click", "button10", {}>>, <<131, "Click", "button11", {}>>,
     <<10, "Click", "right", {"alt"}>>, <<18, "Click", "right", {"ctrl"}>>,
     <<42, "Motion", "right", {"alt"}>>, <<50, "Motion", "right", {"ctrl"}>>,
     <<26, "Click", "right", {"alt", "ctrl"}>>,
     <<80, "Wheel", "wheelup", {"ctrl"}>>, <<73, "Wheel", "wheeldown", {"alt"}>>,
     <<89, "Wheel", "wheeldown", {"alt", "ctrl"}>>}

\* what the cases of TestParseSGRMouseEvent expect of a button value and a
\* release flag
SgrTestCases ==
    {<<0, FALSE, "Click", "left", {}>>, <<32, FALSE, "Motion", "left", {}>>,
     <<0, TRUE, "Release", "left", {}>>,
     <<1, FALSE, "Click", "middle", {}>>, <<33, FALSE, "Motion", "middle", {}>>,
     <<1, TRUE, "Release", "middle", {}>>,
     <<2, FALSE, "Click", "right", {}>>, <<2, TRUE, "Release", "right", {}>>,
     <<35, FALSE, "Motion", "none", {}>>,
     <<64, FALSE, "Wheel", "wheelup", {}>>, <<65, FALSE, "Wheel", "wheeldown", {}>>,
     <<66, FALSE, "Wheel", "wheelleft", {}>>, <<67, FALSE, "Wheel", "wheelright", {}>>,
     <<128, FALSE, "Click", "backward", {}>>, <<160, FALSE, "Motion", "backward", {}>>,
     <<129, FALSE, "Click", "forward", {}>>, <<161, FALSE, "Motion", "forward", {}>>,
     <<10, FALSE, "Click", "right", {"alt"}>>, <<18, FALSE, "Click", "right", {"ctrl"}>>,
     <<26, FALSE, "Click", "right", {"alt", "ctrl"}>>,
     <<73, FALSE, "Wheel", "wheeldown", {"alt"}>>,
     <<81, FALSE, "Wheel", "wheeldown", {"ctrl"}>>,
     <<89, FALSE, "Wheel", "wheeldown", {"alt", "ctrl"}>>,
     <<93, FALSE, "Wheel", "wheeldown", {"alt", "shift", "ctrl"}>>}

(***************************************************************************)
(* C12: an X10 report decodes a coordinate of 0..222 exactly and one of     *)
(* 223..255 as the coordinate less 256; x = 250, y = 223 decodes to -6, -33.*)
(***************************************************************************)
Wrapped(v) == IF v <= 222 THEN v ELSE v - 256

X10Wraparound ==
    (mev.op = "X10" /\ mres # NoMouse) =>
        /\ mres.x = Wrapped(mev.x)
        /\ mres.y = Wrapped(mev.y)
        /\ (mev.x = 250 /\ mev.y = 223) => (mres.x = -6 /\ mres.y = -33)

\* the overflow position of the test: left button in motion at 250, 223
X10WraparoundWitness ==
    /\ mev.op = "X10" /\ mev.b = 32 /\ mev.x = 250 /\ mev.y = 223
    /\ mres # NoMouse /\ mres.type = "Motion" /\ mres.button = "left"
    /\ mres.x = -6 /\ mres.y = -33

(***************************************************************************)
(* C13: the event an X10 button value decodes to.                           *)
(***************************************************************************)
\* the event kind and button the claim gives a button value b, read in the
\* order wheel, motion, release, click
X10Kind(b) ==
    IF HasBit(b, 64) THEN "Wheel"
    ELSE IF HasBit(b, 32) THEN "Motion"
    ELSE IF b % 4 = 3 /\ ~HasBit(b, 128) THEN "Release"
    ELSE "Click"

X10Button(b) ==
    IF HasBit(b, 64) THEN WheelButton(b)
    ELSE IF HasBit(b, 128) THEN ExtraButton(b)
    ELSE BaseButton(b)

TermWidth == 3     \* t.scr.Width()
TermHeight == 2    \* t.scr.Height()
MaxOps == 2        \* the commands dispatched to one terminal

Plus(a, b) ==
    IF b > 0 /\ a > ParamMask - b THEN ParamMask
    ELSE IF b < 0 /\ a < HasMoreFlag - b THEN HasMoreFlag
    ELSE a + b

Minus(a, b) ==
    IF b = HasMoreFlag THEN (IF a < 0 THEN a - b ELSE ParamMask)
    ELSE Plus(a, 0 - b)

max(a, b) == IF a > b THEN a ELSE b

min(a, b) == IF a > b THEN b ELSE a

\* no color (a nil ansi.Color)
Nil == [kind |-> "nil"]

\* the pen after Reset
DefaultPen ==
    [bold |-> FALSE, faint |-> FALSE, italic |-> FALSE, ul |-> "none",
     slow |-> FALSE, rapid |-> FALSE, reverse |-> FALSE, conceal |-> FALSE,
     strike |-> FALSE, fg |-> Nil, bg |-> Nil, ulc |-> Nil]

\* var spaceCell, given a style
spaceCell(style) == [Content |-> " ", Width |-> 1, Style |-> style]

\* the cell Clear leaves behind
BlankCell == spaceCell(DefaultPen)

Points == (0..(TermWidth - 1)) \X (0..(TermHeight - 1))

Rectangle(x, y, w, h) == [X |-> x, Y |-> y, Width |-> w, Height |-> h]

\* the point pt lies in the rectangle r
Inside(pt, r) ==
    /\ pt[1] >= r.X /\ Minus(pt[1], r.X) < r.Width
    /\ pt[2] >= r.Y /\ Minus(pt[2], r.Y) < r.Height

\* scr.Fill(c, &rect)
Fill(scr, c, r) ==
    [scr EXCEPT !.cells = [pt \in Points |-> IF Inside(pt, r) THEN c ELSE @[pt]]]

\* scr.Clear(&rect), and scr.Clear(nil) for r = Nil
Clear(scr, r) ==
    [scr EXCEPT !.cells =
        [pt \in Points |-> IF r = Nil \/ Inside(pt, r) THEN BlankCell ELSE @[pt]]]

\* scr.moveCursor(x, y)
moveCursor(scr, x, y) == [scr EXCEPT !.cur.Pos = [X |-> x, Y |-> y]]

\* scr.tabstops.Next(x): the next stop, or the last column
TabNext(x) ==
    IF x >= TermWidth - 1 THEN TermWidth - 1
    ELSE IF x < 0 THEN 0
    ELSE LET stop == ((x \div 8) + 1) * 8 IN
         IF stop < TermWidth THEN stop ELSE TermWidth - 1

\* for i := 0; i < n; i++ { x = t.scr.tabstops.Next(x) }: after the first
\* TermWidth rounds x stays at the last column
RECURSIVE TabLoop(_, _)
TabLoop(x, n) ==
    IF n <= 0 THEN x ELSE TabLoop(TabNext(x), min(n, TermWidth) - 1)

NewScreen ==
    [cells |-> [pt \in Points |-> BlankCell],
     cur |-> [Pos |-> [X |-> 0, Y |-> 0], Pen |-> DefaultPen, Visible |-> TRUE]]

ModeSet == "set"
ModeReset == "reset"

CursorEnableMode == 25
AltScreenBufferMode == 1049

\* a new terminal; scr is the index of the active screen in scrs (1 for
\* &t.scrs[0], 2 for &t.scrs[1]); absent is what Param() of an omitted
\* parameter reads as
NewTerminal(absent) ==
    [scrs |-> <<NewScreen, NewScreen>>, scr |-> 1,
     pmodes |-> <<>>, modes |-> <<>>,
     parser |-> [Cmd |-> 0, Params |-> <<>>, ParamsLen |-> 0],
     absent |-> absent]

\* ansi.Param(s).Param()
ParamRead(tm, s) ==
    IF AndParamMask(s) = MissingParam THEN tm.absent ELSE AndParamMask(s)

\* m[k] = v for a Go map m
MapSet(m, k, v) == [j \in (DOMAIN m) \cup {k} |-> IF j = k THEN v ELSE m[j]]

\* what a handler leaves: the terminal, the moveCursor call it made (Nil for
\* none), whether it panicked, and the SGR codes it went through
Handled(tm, moved) == [t |-> tm, moved |-> moved, fault |-> FALSE, codes |-> <<>>]

\* handleMode clearing the screen it leaves instead of the one it enters
handleModeMutClearActive(tm) ==
    IF tm.parser.ParamsLen = 0 THEN Handled(tm, Nil)
    ELSE
    LET mode == ParamRead(tm, tm.parser.Params[1])
        setting == IF Command(tm.parser.Cmd) = 104 THEN ModeSet ELSE ModeReset
    IN
    IF Marker(tm.parser.Cmd) = 63
    THEN LET t1 == [tm EXCEPT !.pmodes = MapSet(@, mode, setting)] IN
         IF mode = CursorEnableMode
         THEN Handled([t1 EXCEPT !.scrs[t1.scr].cur.Visible = (setting = ModeSet)], Nil)
         ELSE IF mode = 1047
         THEN Handled([t1 EXCEPT !.scr = IF setting = ModeSet THEN 2 ELSE 1], Nil)
         ELSE IF mode = AltScreenBufferMode
         THEN IF setting = ModeSet
              THEN Handled([t1 EXCEPT !.scrs[t1.scr] = Clear(@, Nil), !.scr = 2], Nil)
              ELSE Handled([t1 EXCEPT !.scr = 1], Nil)
         ELSE Handled(t1, Nil)
    ELSE Handled([tm EXCEPT !.modes = MapSet(@, mode, setting)], Nil)

\* handleMode clearing the alternate screen on entry by mode 1047 as well
handleModeMutBothClear(tm) ==
    IF tm.parser.ParamsLen = 0 THEN Handled(tm, Nil)
    ELSE
    LET mode == ParamRead(tm, tm.parser.Params[1])
        setting == IF Command(tm.parser.Cmd) = 104 THEN ModeSet ELSE ModeReset
    IN
    IF Marker(tm.parser.Cmd) = 63
    THEN LET t1 == [tm EXCEPT !.pmodes = MapSet(@, mode, setting)] IN
         IF mode = CursorEnableMode
         THEN Handled([t1 EXCEPT !.scrs[t1.scr].cur.Visible = (setting = ModeSet)], Nil)
         ELSE IF mode = 1047 \/ mode = AltScreenBufferMode
         THEN IF setting = ModeSet
              THEN Handled([t1 EXCEPT !.scr = 2, !.scrs[2] = Clear(@, Nil)], Nil)
              ELSE Handled([t1 EXCEPT !.scr = 1], Nil)
         ELSE Handled(t1, Nil)
    ELSE Handled([tm EXCEPT !.modes = MapSet(@, mode, setting)], Nil)

\* handleMode taking a command without marker for a DEC private one
handleModeMutNoMarker(tm) ==
    IF tm.parser.ParamsLen = 0 THEN Handled(tm, Nil)
    ELSE
    LET mode == ParamRead(tm, tm.parser.Params[1])
        setting == IF Command(tm.parser.Cmd) = 104 THEN ModeSet ELSE ModeReset
    IN
    IF Marker(tm.parser.Cmd) \in {0, 63}
    THEN LET t1 == [tm EXCEPT !.pmodes = MapSet(@, mode, setting)] IN
         IF mode = CursorEnableMode
         THEN Handled([t1 EXCEPT !.scrs[t1.scr].cur.Visible = (setting = ModeSet)], Nil)
         ELSE IF mode = 1047
         THEN Handled([t1 EXCEPT !.scr = IF setting = ModeSet THEN 2 ELSE 1], Nil)
         ELSE IF mode = AltScreenBufferMode
         THEN IF setting = ModeSet
              THEN Handled([t1 EXCEPT !.scr = 2, !.scrs[2] = Clear(@, Nil)], Nil)
              ELSE Handled([t1 EXCEPT !.scr = 1], Nil)
         ELSE Handled(t1, Nil)
    ELSE Handled([tm EXCEPT !.modes = MapSet(@, mode, setting)], Nil)

handleMode(tm) ==
    IF tm.parser.ParamsLen = 0 THEN Handled(tm, Nil)
    ELSE
    LET mode == ParamRead(tm, tm.parser.Params[1])
        setting == IF Command(tm.parser.Cmd) = 104 THEN ModeSet ELSE ModeReset
    IN
    IF Marker(tm.parser.Cmd) = 63
    THEN LET t1 == [tm EXCEPT !.pmodes = MapSet(@, mode, setting)] IN
         IF mode = CursorEnableMode
         THEN Handled([t1 EXCEPT !.scrs[t1.scr].cur.Visible = (setting = ModeSet)], Nil)
         ELSE IF mode = 1047
         THEN Handled([t1 EXCEPT !.scr = IF setting = ModeSet THEN 2 ELSE 1], Nil)
         ELSE IF mode = AltScreenBufferMode
         THEN IF setting = ModeSet
              THEN Handled([t1 EXCEPT !.scr = 2, !.scrs[2] = Clear(@, Nil)], Nil)
              ELSE Handled([t1 EXCEPT !.scr = 1], Nil)
         ELSE Handled(t1, Nil)
    ELSE Handled([tm EXCEPT !.modes = MapSet(@, mode, setting)], Nil)

\* handleScreen with mode 1 stopping short of the cursor row
handleScreenMutExclusive(tm) ==
    LET count == IF tm.parser.ParamsLen > 0
                 THEN ParamRead(tm, tm.parser.Params[1]) ELSE 0
        scr == tm.scrs[tm.scr]
        w == TermWidth
        h == TermHeight
        y == scr.cur.Pos.Y
        r == CASE count = 0 -> Rectangle(0, y, w, Minus(h, y))
               [] count = 1 -> Rectangle(0, 0, w, y)
               [] count = 2 \/ count = 3 -> Rectangle(0, 0, w, h)
               [] OTHER -> Nil
    IN IF Command(tm.parser.Cmd) = 74 /\ r # Nil
       THEN Handled([tm EXCEPT !.scrs[tm.scr] = Clear(@, r)], Nil)
       ELSE Handled(tm, Nil)

handleScreen(tm) ==
    LET count == IF tm.parser.ParamsLen > 0
                 THEN ParamRead(tm, tm.parser.Params[1]) ELSE 0
        scr == tm.scrs[tm.scr]
        w == TermWidth
        h == TermHeight
        y == scr.cur.Pos.Y
        r == CASE count = 0 -> Rectangle(0, y, w, Minus(h, y))
               [] count = 1 -> Rectangle(0, 0, w, Plus(y, 1))
               [] count = 2 \/ count = 3 -> Rectangle(0, 0, w, h)
               [] OTHER -> Nil
    IN IF Command(tm.parser.Cmd) = 74 /\ r # Nil
       THEN Handled([tm EXCEPT !.scrs[tm.scr] = Clear(@, r)], Nil)
       ELSE Handled(tm, Nil)

\* handleLine with mode 1 stopping short of the cursor column
handleLineMutExclusive(tm) ==
    LET count == IF tm.parser.ParamsLen > 0
                 THEN ParamRead(tm, tm.parser.Params[1]) ELSE 0
        scr == tm.scrs[tm.scr]
        x == scr.cur.Pos.X
        y == scr.cur.Pos.Y
        w == TermWidth
        c == spaceCell(scr.cur.Pen)
        r == CASE count = 0 -> Rectangle(x, y, Minus(w, x), 1)
               [] count = 1 -> Rectangle(0, y, x, 1)
               [] count = 2 -> Rectangle(0, y, w, 1)
               [] OTHER -> Nil
    IN IF Command(tm.parser.Cmd) = 75 /\ r # Nil
       THEN Handled([tm EXCEPT !.scrs[tm.scr] = Fill(@, c, r)], Nil)
       ELSE Handled(tm, Nil)

handleLine(tm) ==
    LET count == IF tm.parser.ParamsLen > 0
                 THEN ParamRead(tm, tm.parser.Params[1]) ELSE 0
        scr == tm.scrs[tm.scr]
        x == scr.cur.Pos.X
        y == scr.cur.Pos.Y
        w == TermWidth
        c == spaceCell(scr.cur.Pen)
        r == CASE count = 0 -> Rectangle(x, y, Minus(w, x), 1)
               [] count = 1 -> Rectangle(0, y, Plus(x, 1), 1)
               [] count = 2 -> Rectangle(0, y, w, 1)
               [] OTHER -> Nil
    IN IF Command(tm.parser.Cmd) = 75 /\ r # Nil
       THEN Handled([tm EXCEPT !.scrs[tm.scr] = Fill(@, c, r)], Nil)
       ELSE Handled(tm, Nil)

\* the moveCursor call a handler made
At(x, y) == [kind |-> "at", x |-> x, y |-> y]

\* handleCursor with 'G' counting from the cursor's column
handleCursorMutRelative(tm) ==
    LET pr == tm.parser
        width == TermWidth
        height == TermHeight
        c == Command(pr.Cmd)
        n == IF pr.ParamsLen > 0 THEN pr.Params[1] ELSE 1
        scr == tm.scrs[tm.scr]
        x == scr.cur.Pos.X
        y == scr.cur.Pos.Y
        two == pr.ParamsLen >= 2
        row == IF two THEN ParamRead(tm, pr.Params[1]) ELSE 0
        col == IF two THEN ParamRead(tm, pr.Params[2]) ELSE 0
        filled == IF c = 88
                  THEN Fill(scr, spaceCell(scr.cur.Pen), Rectangle(x, y, n, 1))
                  ELSE scr
        nx == CASE c = 67 -> min(width - 1, Plus(x, n))
                [] c = 68 -> max(0, Minus(x, n))
                [] c = 69 \/ c = 70 -> 0
                [] c = 71 -> min(width - 1, max(0, Plus(x, Minus(n, 1))))
                [] c = 72 \/ c = 102 ->
                     IF two THEN min(width - 1, max(0, Minus(col, 1))) ELSE 0
                [] c = 73 -> TabLoop(x, n)
                [] c = 88 -> min(width - 1, Plus(x, n))
                [] OTHER -> x
        ny == CASE c = 65 \/ c = 70 -> max(0, Minus(y, n))
                [] c = 66 \/ c = 69 -> min(height - 1, Plus(y, n))
                [] c = 72 \/ c = 102 ->
                     IF two THEN min(height - 1, max(0, Minus(row, 1))) ELSE 0
                [] c = 100 -> min(height - 1, max(0, Minus(n, 1)))
                [] c = 101 -> min(height - 1, max(0, Plus(y, n)))
                [] OTHER -> y
    IN Handled([tm EXCEPT !.scrs[tm.scr] = moveCursor(filled, nx, ny)], At(nx, ny))

\* handleCursor reading the column before the row for 'H'
handleCursorMutSwapped(tm) ==
    LET pr == tm.parser
        width == TermWidth
        height == TermHeight
        c == Command(pr.Cmd)
        n == IF pr.ParamsLen > 0 THEN pr.Params[1] ELSE 1
        scr == tm.scrs[tm.scr]
        x == scr.cur.Pos.X
        y == scr.cur.Pos.Y
        two == pr.ParamsLen >= 2
        row == IF two THEN ParamRead(tm, pr.Params[2]) ELSE 0
        col == IF two THEN ParamRead(tm, pr.Params[1]) ELSE 0
        filled == IF c = 88
                  THEN Fill(scr, spaceCell(scr.cur.Pen), Rectangle(x, y, n, 1))
                  ELSE scr
        nx == CASE c = 67 -> min(width - 1, Plus(x, n))
                [] c = 68 -> max(0, Minus(x, n))
                [] c = 69 \/ c = 70 -> 0
                [] c = 71 -> min(width - 1, max(0, Minus(n, 1)))
                [] c = 72 \/ c = 102 ->
                     IF two THEN min(width - 1, max(0, Minus(col, 1))) ELSE 0
                [] c = 73 -> TabLoop(x, n)
                [] c = 88 -> min(width - 1, Plus(x, n))
                [] OTHER -> x
        ny == CASE c = 65 \/ c = 70 -> max(0, Minus(y, n))
                [] c = 66 \/ c = 69 -> min(height - 1, Plus(y, n))
                [] c = 72 \/ c = 102 ->
                     IF two THEN min(height - 1, max(0, Minus(row, 1))) ELSE 0
                [] c = 100 -> min(height - 1, max(0, Minus(n, 1)))
                [] c = 101 -> min(height - 1, max(0, Plus(y, n)))
                [] OTHER -> y
    IN Handled([tm EXCEPT !.scrs[tm.scr] = moveCursor(filled, nx, ny)], At(nx, ny))

handleCursor(tm) ==
    LET pr == tm.parser
        width == TermWidth
        height == TermHeight
        c == Command(pr.Cmd)
        n == IF pr.ParamsLen > 0 THEN pr.Params[1] ELSE 1
        scr == tm.scrs[tm.scr]
        x == scr.cur.Pos.X
        y == scr.cur.Pos.Y
        two == pr.ParamsLen >= 2
        row == IF two THEN ParamRead(tm, pr.Params[1]) ELSE 0
        col == IF two THEN ParamRead(tm, pr.Params[2]) ELSE 0
        filled == IF c = 88
                  THEN Fill(scr, spaceCell(scr.cur.Pen), Rectangle(x, y, n, 1))
                  ELSE scr
        nx == CASE c = 67 -> min(width - 1, Plus(x, n))
                [] c = 68 -> max(0, Minus(x, n))
                [] c = 69 \/ c = 70 -> 0
                [] c = 71 -> min(width - 1, max(0, Minus(n, 1)))
                [] c = 72 \/ c = 102 ->
                     IF two THEN min(width - 1, max(0, Minus(col, 1))) ELSE 0
                [] c = 73 -> TabLoop(x, n)
                [] c = 88 -> min(width - 1, Plus(x, n))
                [] OTHER -> x
        ny == CASE c = 65 \/ c = 70 -> max(0, Minus(y, n))
                [] c = 66 \/ c = 69 -> min(height - 1, Plus(y, n))
                [] c = 72 \/ c = 102 ->
                     IF two THEN min(height - 1, max(0, Minus(row, 1))) ELSE 0
                [] c = 100 -> min(height - 1, max(0, Minus(n, 1)))
                [] c = 101 -> min(height - 1, max(0, Plus(y, n)))
                [] OTHER -> y
    IN Handled([tm EXCEPT !.scrs[tm.scr] = moveCursor(filled, nx, ny)], At(nx, ny))

\* colors: ansi.BasicColor, ansi.ExtendedColor, color.RGBA
BasicColor(v) == [kind |-> "basic", v |-> v]
ExtendedColor(v) == [kind |-> "extended", v |-> v]
RGBA(r, g, b) == [kind |-> "rgb", r |-> r, g |-> g, b |-> b]

\* params[i] for a Go index i can be read
Indexable(params, i) == i >= 0 /\ i < Len(params)

\* readColor(&i, params): the color (Nil for none), the index it leaves in
\* *idxp, and whether it indexed params out of range
readColor(i, params) ==
    LET paramsLen == Len(params)
        none == [c |-> Nil, i |-> i, fault |-> FALSE]
        oops == [c |-> Nil, i |-> i, fault |-> TRUE]
    IN
    IF i > paramsLen - 1 THEN none
    ELSE IF ~Indexable(params, i + 1) THEN oops
    ELSE IF params[i + 2] = 2
    THEN IF i > paramsLen - 4 THEN none
         ELSE IF ~Indexable(params, i + 4) THEN oops
         ELSE [c |-> RGBA(LowByte(params[i + 3]), LowByte(params[i + 4]),
                          LowByte(params[i + 5])),
               i |-> i + 4, fault |-> FALSE]
    ELSE IF params[i + 2] = 5
    THEN IF i > paramsLen - 2 THEN none
         ELSE IF ~Indexable(params, i + 2) THEN oops
         ELSE [c |-> ExtendedColor(LowByte(params[i + 3])), i |-> i + 2,
               fault |-> FALSE]
    ELSE none

\* cellbuf.UnderlineStyle values, by the sub-parameter of SGR 4
UnderlineStyles == <<"none", "single", "double", "curly", "dotted", "dashed">>

\* the body of the switch of handleSgr for a code that reads no further
\* parameter
SgrCode(pen, param) ==
    CASE param = 0 -> DefaultPen
      [] param = 1 -> [pen EXCEPT !.bold = TRUE]
      [] param = 2 -> [pen EXCEPT !.faint = TRUE]
      [] param = 3 -> [pen EXCEPT !.italic = TRUE]
      [] param = 4 -> [pen EXCEPT !.ul = "single"]
      [] param = 5 -> [pen EXCEPT !.slow = TRUE]
      [] param = 6 -> [pen EXCEPT !.rapid = TRUE]
      [] param = 7 -> [pen EXCEPT !.reverse = TRUE]
      [] param = 8 -> [pen EXCEPT !.conceal = TRUE]
      [] param = 9 -> [pen EXCEPT !.strike = TRUE]
      [] param = 22 -> [pen EXCEPT !.bold = FALSE, !.faint = FALSE]
      [] param = 23 -> [pen EXCEPT !.italic = FALSE]
      [] param = 24 -> [pen EXCEPT !.ul = "none"]
      [] param = 25 -> [pen EXCEPT !.slow = FALSE, !.rapid = FALSE]
      [] param = 27 -> [pen EXCEPT !.reverse = FALSE]
      [] param = 28 -> [pen EXCEPT !.conceal = FALSE]
      [] param = 29 -> [pen EXCEPT !.strike = FALSE]
      [] param >= 30 /\ param <= 37 -> [pen EXCEPT !.fg = BasicColor(param - 30)]
      [] param = 39 -> [pen EXCEPT !.fg = Nil]
      [] param >= 40 /\ param <= 47 -> [pen EXCEPT !.bg = BasicColor(param - 40)]
      [] param = 49 -> [pen EXCEPT !.bg = Nil]
      [] param = 59 -> [pen EXCEPT !.ulc = Nil]
      [] param >= 90 /\ param <= 97 -> [pen EXCEPT !.fg = BasicColor(8 + param - 90)]
      [] param >= 100 /\ param <= 107 -> [pen EXCEPT !.bg = BasicColor(8 + param - 100)]
      [] OTHER -> pen

\* the loop of handleSgr from index i on: the pen it leaves, the codes the
\* switch was entered with, and whether an index went out of range
RECURSIVE SgrLoop(_, _, _, _, _)
SgrLoop(tm, params, i, pen, codes) ==
    IF i >= Len(params) THEN [pen |-> pen, codes |-> codes, fault |-> FALSE]
    ELSE
    LET r == params[i + 1]
        param == ParamRead(tm, r)
        hasMore == HasMore(r)
        seen == Append(codes, param)
    IN
    IF param = 4 /\ hasMore
    THEN IF ~Indexable(params, i + 1)
         THEN [pen |-> pen, codes |-> seen, fault |-> TRUE]
         ELSE LET nextParam == ParamRead(tm, params[i + 2]) IN
              SgrLoop(tm, params, i + 1,
                      IF nextParam >= 0 /\ nextParam <= 5
                      THEN [pen EXCEPT !.ul = UnderlineStyles[nextParam + 1]]
                      ELSE pen, seen)
    ELSE IF param \in {38, 48, 58}
    THEN LET rc == readColor(i, params) IN
         IF rc.fault THEN [pen |-> pen, codes |-> seen, fault |-> TRUE]
         ELSE SgrLoop(tm, params, rc.i + 1,
                      IF rc.c = Nil THEN pen
                      ELSE IF param = 38 THEN [pen EXCEPT !.fg = rc.c]
                      ELSE IF param = 48 THEN [pen EXCEPT !.bg = rc.c]
                      ELSE [pen EXCEPT !.ulc = rc.c], seen)
    ELSE SgrLoop(tm, params, i + 1, SgrCode(pen, param), seen)

\* handleSgr without the reset of an empty parameter list
handleSgrMutNoEmpty(tm) ==
    LET params == SubSeq(tm.parser.Params, 1, tm.parser.ParamsLen)
        r == SgrLoop(tm, params, 0, tm.scrs[tm.scr].cur.Pen, <<>>)
    IN [t |-> [tm EXCEPT !.scrs[tm.scr].cur.Pen = r.pen], moved |-> Nil,
        fault |-> r.fault, codes |-> r.codes]

handleSgr(tm) ==
    IF tm.parser.ParamsLen = 0
    THEN [t |-> [tm EXCEPT !.scrs[tm.scr].cur.Pen = DefaultPen], moved |-> Nil,
          fault |-> FALSE, codes |-> <<>>]
    ELSE
    LET params == SubSeq(tm.parser.Params, 1, tm.parser.ParamsLen)
        r == SgrLoop(tm, params, 0, tm.scrs[tm.scr].cur.Pen, <<>>)
    IN [t |-> [tm EXCEPT !.scrs[tm.scr].cur.Pen = r.pen], moved |-> Nil,
        fault |-> r.fault, codes |-> r.codes]

\* handleCsi switching on the final byte alone
handleCsiMutLowByte(tm) ==
    LET cmd == Command(tm.parser.Cmd) IN
    IF cmd \in {65, 66, 67, 68, 69, 70, 71, 72, 73, 88, 100, 101} THEN handleCursor(tm)
    ELSE IF cmd = 109 THEN handleSgr(tm)
    ELSE IF cmd = 74 THEN handleScreen(tm)
    ELSE IF cmd \in {75, 76, 77, 83, 84} THEN handleLine(tm)
    ELSE IF cmd \in {108, 104} THEN handleMode(tm)
    ELSE Handled(tm, Nil)

handleCsi(tm) ==
    LET cmd == tm.parser.Cmd IN
    IF cmd \in {65, 66, 67, 68, 69, 70, 71, 72, 73, 88, 100, 101} THEN handleCursor(tm)
    ELSE IF cmd = 109 THEN handleSgr(tm)
    ELSE IF cmd = 74 THEN handleScreen(tm)
    ELSE IF cmd \in {75, 76, 77, 83, 84} THEN handleLine(tm)
    ELSE IF cmd \in {108, 104, 108 + 63 * Pow2(MarkerShift), 104 + 63 * Pow2(MarkerShift)}
    THEN handleMode(tm)
    ELSE Handled(tm, Nil)

(***************************************************************************)
(* A terminal and the decoded commands dispatched to it.  Each run starts   *)
(* from a new terminal and dispatches a bounded number of commands; last    *)
(* keeps the command, the terminal before it and what the handler did.      *)
(***************************************************************************)
Dispatch(cmd, params) ==
    LET tm == [t EXCEPT !.parser = [Cmd |-> cmd, Params |-> params,
                                    ParamsLen |-> Len(params)]]
        r == handleCsi(tm)
    IN /\ ~last.fault
       /\ t' = r.t
       /\ last' = [op |-> "csi", cmd |-> cmd, params |-> params, before |-> t,
                   moved |-> r.moved, fault |-> r.fault, codes |-> r.codes]
       /\ ops' = ops + 1
       /\ UNCHANGED <<decVars, codecVars, mouseVars>>

TermInit ==
    /\ t \in {NewTerminal(a) : a \in {-1, 0}}
    /\ last = [op |-> "new", fault |-> FALSE]
    /\ ops = 0
    /\ buf = <<>> /\ cut = 0 /\ gc = NoCluster /\ pos = 0
    /\ state = NormalState
    /\ p = NewParser(ParamCap, DataCap)
    /\ log = <<>>
    /\ dead = FALSE
    /\ cin = NoCodec
    /\ cout = NoCodec
    /\ mev = NoMouse
    /\ mres = NoMouse

\* the active screen of a terminal
Active(tm) == tm.scrs[tm.scr]

\* The cursor commands: every final byte handleCursor knows, with no
\* parameter, with one parameter (zero, small, larger than the screen, very
\* large, omitted, and with the has-more flag) and with a row and a column.
CursorFinals == {65, 66, 67, 68, 69, 70, 71, 72, 73, 88, 100, 101, 102}

CursorCounts ==
    {0, 1, 2, 5, ParamMask - 1, MissingParam, OrHasMore(MissingParam), OrHasMore(1)}

CursorParams ==
    {<<>>} \cup {<<n>> : n \in CursorCounts}
    \cup {<<r, c>> : r \in {0, 1, 2, 5, MissingParam}, c \in {0, 1, 2, 5, MissingParam}}

DispatchCursor ==
    /\ ops < MaxOps
    /\ \E c \in CursorFinals, ps \in CursorParams : Dispatch(c, ps)

CursorNext == DispatchCursor

SpecCursor == TermInit /\ [][CursorNext]_vars

\* The SGR commands: every list of up to MaxSgrLen of a few codes, and the
\* extended-color groups, whole and cut short.
MaxSgrLen == 2

SgrCodes == {0, 1, 2, 4, 5, 31, 38, OrHasMore(4), MissingParam}

ColorGroups ==
    UNION {{<<k>>, <<k, 5>>, <<k, 2>>, <<k, 5, 7>>, <<k, 2, 1>>, <<k, 2, 1, 2>>,
            <<k, 2, 1, 2, 3>>, <<k, 5, 7, 0>>, <<k, 5, 7, 1>>, <<k, 2, 1, 2, 3, 1>>,
            <<1, k>>, <<1, k, 5>>, <<1, k, 5, 7>>,
            <<OrHasMore(k), OrHasMore(5), 7>>} : k \in {38, 48, 58}}

SgrLists ==
    UNION {[1..n -> SgrCodes] : n \in 0..MaxSgrLen} \cup ColorGroups

DispatchSgr ==
    /\ ops < MaxOps
    /\ \E ps \in SgrLists : Dispatch(109, ps)

SgrNext == DispatchSgr

SpecSgr == TermInit /\ [][SgrNext]_vars

(***************************************************************************)
(* C15: the position handleCursor passes to moveCursor lies on the screen.  *)
(***************************************************************************)
CursorClamped ==
    (last.op = "csi" /\ last.moved # Nil) =>
        /\ 0 <= last.moved.x /\ last.moved.x <= TermWidth - 1
        /\ 0 <= last.moved.y /\ last.moved.y <= TermHeight - 1

(***************************************************************************)
(* C20: a command with final byte 'f' dispatched through handleCsi leaves   *)
(* the cursor where the same parameters with final byte 'H' leave it.       *)
(***************************************************************************)
\* the terminal last.before after the dispatch of cmd with the parameters of
\* the last command
Redispatched(cmd) ==
    handleCsi([last.before EXCEPT
                  !.parser = [Cmd |-> cmd, Params |-> last.params,
                              ParamsLen |-> Len(last.params)]]).t

HvpEqualsCup ==
    (last.op = "csi" /\ last.cmd = 102) =>
        Active(t).cur.Pos = Active(Redispatched(72)).cur.Pos

(***************************************************************************)
(* C16: an SGR command with no parameters, or one whose last code gone      *)
(* through is 0, leaves the default pen, whatever the pen was.              *)
(***************************************************************************)
PenReset ==
    (/\ last.op = "csi" /\ last.cmd = 109 /\ ~last.fault
     /\ \/ last.params = <<>>
        \/ last.codes # <<>> /\ last.codes[Len(last.codes)] = 0)
    => Active(t).cur.Pen = DefaultPen

\* a bold pen with a foreground color, reset by code 0 after another code, and
\* one reset by a command without parameters
PenResetWitness ==
    /\ last.op = "csi" /\ last.cmd = 109
    /\ Active(last.before).cur.Pen.bold
    /\ Active(last.before).cur.Pen.fg # Nil
    /\ last.params = <<4, 0>>
    /\ Active(t).cur.Pen = DefaultPen

(***************************************************************************)
(* C19: an extended-color group cut short (38, 48 or 58 last, or followed   *)
(* by 5 alone, or by 2 and fewer than three components) is gone through     *)
(* without reading past the parameter count and leaves its color alone.     *)
(***************************************************************************)
\* the index of the first 38, 48 or 58 of a list, or 0
RECURSIVE FirstGroup(_, _)
FirstGroup(params, j) ==
    IF j > Len(params) THEN 0
    ELSE IF params[j] \in {38, 48, 58} THEN j
    ELSE FirstGroup(params, j + 1)

\* the group that starts at index j of a list is cut short
CutShort(params, j) ==
    \/ j = Len(params)
    \/ params[j + 1] = 5 /\ Len(params) = j + 1
    \/ params[j + 1] = 2 /\ Len(params) < j + 4

ColorOf(pen, k) == IF k = 38 THEN pen.fg ELSE IF k = 48 THEN pen.bg ELSE pen.ulc

TruncatedColorIgnored ==
    LET j == FirstGroup(last.params, 1)
        pre == SgrLoop(last.before, SubSeq(last.params, 1, j - 1), 0,
                       Active(last.before).cur.Pen, <<>>)
    IN (/\ last.op = "csi" /\ last.cmd = 109
        /\ j > 0 /\ CutShort(last.params, j))
       => /\ ~last.fault
          /\ ColorOf(Active(t).cur.Pen, last.params[j]) = ColorOf(pre.pen, last.params[j])

(***************************************************************************)
(* The screen commands: the modes (with and without the '?' marker), the    *)
(* erasures of screen and line, and a pen that makes filled cells differ    *)
(* from cleared ones.                                                       *)
(***************************************************************************)
MaxScreenOps == 6  \* the commands dispatched to one terminal

\* 'h' and 'l', plain and with the marker '?'
ModeFinals == {104, 108, 104 + 63 * Pow2(MarkerShift), 108 + 63 * Pow2(MarkerShift)}

ModeParams == {<<1047>>, <<AltScreenBufferMode>>}

DispatchMode ==
    /\ ops < MaxScreenOps
    /\ \E c \in ModeFinals, ps \in ModeParams : Dispatch(c, ps)

DispatchErase ==
    /\ ops < MaxScreenOps
    /\ \E c \in {74, 75}, ps \in {<<>>, <<2>>} : Dispatch(c, ps)

DispatchPen ==
    /\ ops < MaxScreenOps
    /\ \E ps \in {<<1>>, <<0>>} : Dispatch(109, ps)

ScreenNext == DispatchMode \/ DispatchErase \/ DispatchPen

SpecScreen == TermInit /\ [][ScreenNext]_vars

\* the last command is 'CSI ? mode h' (set = TRUE) or 'CSI ? mode l'
LastMode(mode, set) ==
    /\ last.op = "csi"
    /\ last.cmd = (IF set THEN 104 ELSE 108) + 63 * Pow2(MarkerShift)
    /\ Len(last.params) > 0 /\ last.params[1] = mode

AllBlank(scr) == \A pt \in Points : scr.cells[pt] = BlankCell

(***************************************************************************)
(* C17: setting DEC mode 1049 makes the alternate screen active and clears  *)
(* it and leaves the primary screen's cells alone; every command dispatched *)
(* while the alternate screen is active leaves the primary screen's cells   *)
(* alone; resetting 1049 makes the primary screen active.  So the primary   *)
(* cells after the reset are those from before the set, whatever was drawn  *)
(* or erased on the alternate screen in between.                            *)
(***************************************************************************)
AltScreen1049 ==
    /\ LastMode(AltScreenBufferMode, TRUE) =>
          /\ t.scr = 2
          /\ AllBlank(t.scrs[2])
          /\ t.scrs[1].cells = last.before.scrs[1].cells
    /\ (last.op = "csi" /\ last.before.scr = 2) =>
          t.scrs[1].cells = last.before.scrs[1].cells
    /\ LastMode(AltScreenBufferMode, FALSE) =>
          /\ t.scr = 1
          /\ t.scrs[1].cells = last.before.scrs[1].cells

\* mode 1049 reset after it was set, with cells filled on the primary screen
\* before the set and cells filled on the alternate screen since
AltScreen1049Witness ==
    /\ LastMode(AltScreenBufferMode, FALSE)
    /\ last.before.scr = 2
    /\ AltScreenBufferMode \in DOMAIN last.before.pmodes
    /\ last.before.pmodes[AltScreenBufferMode] = ModeSet
    /\ ~AllBlank(last.before.scrs[2])
    /\ ~AllBlank(t.scrs[1])
    /\ t.scr = 1

(***************************************************************************)
(* C18: after 'CSI ? 1047 h' as well as after 'CSI ? 1049 h' the active     *)
(* screen is the alternate slot and every cell of it is blank.              *)
(***************************************************************************)
AltScreenEntryClears ==
    (LastMode(1047, TRUE) \/ LastMode(AltScreenBufferMode, TRUE)) =>
        /\ t.scr = 2
        /\ AllBlank(t.scrs[2])

(***************************************************************************)
(* C18, amended: after 'CSI ? 1049 h' the active screen is the alternate    *)
(* slot and every cell of it is blank; after 'CSI ? 1047 h' the active      *)
(* screen is the alternate slot and its cells are what they were before.    *)
(***************************************************************************)
AltScreenEntry ==
    /\ LastMode(AltScreenBufferMode, TRUE) =>
          /\ t.scr = 2
          /\ AllBlank(t.scrs[2])
    /\ LastMode(1047, TRUE) =>
          /\ t.scr = 2
          /\ t.scrs[2].cells = last.before.scrs[2].cells

\* the alternate screen entered from the primary one by mode 1047 with cells
\* filled on it earlier
AltScreenEntryWitness ==
    /\ LastMode(1047, TRUE)
    /\ last.before.scr = 1
    /\ t.scr = 2
    /\ ~AllBlank(t.scrs[2])

(***************************************************************************)
(* The erasing commands: a pen with a background and with bold, cursor      *)
(* steps right and down, and the erasures of characters, line and screen    *)
(* with every mode they know and one they do not.                           *)
(***************************************************************************)
MaxEraseOps == 5  \* the commands dispatched to one terminal

DispatchErasePen ==
    /\ ops < MaxEraseOps
    /\ \E ps \in {<<41>>, <<1>>, <<0>>} : Dispatch(109, ps)

DispatchStep ==
    /\ ops < MaxEraseOps
    /\ \E c \in {66, 67} : Dispatch(c, <<1>>)

DispatchEch ==
    /\ ops < MaxEraseOps
    /\ \E ps \in {<<>>, <<0>>, <<2>>, <<5>>} : Dispatch(88, ps)

DispatchEl ==
    /\ ops < MaxEraseOps
    /\ \E ps \in {<<>>, <<1>>, <<2>>, <<3>>} : Dispatch(75, ps)

DispatchEd ==
    /\ ops < MaxEraseOps
    /\ \E ps \in {<<>>, <<1>>, <<2>>, <<3>>, <<4>>} : Dispatch(74, ps)

EraseNext ==
    DispatchErasePen \/ DispatchStep \/ DispatchEch \/ DispatchEl \/ DispatchEd

SpecErase == TermInit /\ [][EraseNext]_vars

\* the first parameter of the last command, or d for a command without
\* parameters
LastCount(d) == IF last.params = <<>> THEN d ELSE last.params[1]

\* what the last command left of the terminal, the parser registers apart
Same(a, b) ==
    /\ a.scrs = b.scrs /\ a.scr = b.scr
    /\ a.modes = b.modes /\ a.pmodes = b.pmodes

(***************************************************************************)
(* C21: 'CSI n X' fills the n cells from the cursor on the cursor row with  *)
(* a blank cell whose style has the pen's background and nothing else of    *)
(* the pen, leaves the other cells alone, and moves the cursor to           *)
(* min(width-1, x+n).                                                       *)
(***************************************************************************)
EraseCharacter ==
    (last.op = "csi" /\ last.cmd = 88) =>
        LET b == Active(last.before)
            a == Active(t)
            n == LastCount(1)
            x == b.cur.Pos.X
            y == b.cur.Pos.Y
            blank == spaceCell([DefaultPen EXCEPT !.bg = b.cur.Pen.bg])
        IN /\ \A pt \in Points :
                a.cells[pt] = IF pt[2] = y /\ pt[1] >= x /\ pt[1] < x + n
                              THEN blank ELSE b.cells[pt]
           /\ a.cur.Pos = [X |-> min(TermWidth - 1, x + n), Y |-> y]

(***************************************************************************)
(* C22: 'CSI n K' fills columns [x, width) of the cursor row for mode 0,    *)
(* columns [0, x] for mode 1 and the whole row for mode 2, with a blank     *)
(* cell that has the pen's background; the other cells and the cursor stay  *)
(* as they were, and any other mode changes nothing.                        *)
(***************************************************************************)
\* column c lies in the region mode m erases with the cursor at column x
InLine(m, c, x) ==
    \/ m = 0 /\ c >= x
    \/ m = 1 /\ c <= x
    \/ m = 2

EraseInLine ==
    (last.op = "csi" /\ last.cmd = 75) =>
        LET b == Active(last.before)
            a == Active(t)
            m == LastCount(0)
            x == b.cur.Pos.X
            y == b.cur.Pos.Y
        IN /\ \A pt \in Points :
                IF pt[2] = y /\ InLine(m, pt[1], x)
                THEN /\ a.cells[pt].Content = " "
                     /\ a.cells[pt].Width = 1
                     /\ a.cells[pt].Style.bg = b.cur.Pen.bg
                ELSE a.cells[pt] = b.cells[pt]
           /\ a.cur = b.cur
           /\ m \notin {0, 1, 2} => Same(t, last.before)

\* mode 1 with the cursor in the second column and a pen with a background:
\* the first two cells of the row are filled and the third is not
EraseInLineWitness ==
    /\ last.op = "csi" /\ last.cmd = 75 /\ last.params = <<1>>
    /\ Active(last.before).cur.Pos.X = 1
    /\ Active(last.before).cur.Pen.bg # Nil
    /\ Active(t).cells[<<1, 0>>] # BlankCell
    /\ Active(t).cells[<<2, 0>>] = BlankCell

(***************************************************************************)
(* C23: 'CSI n J' clears rows [y, height) for mode 0 or no parameter, rows  *)
(* [0, y] for mode 1 and all rows for modes 2 and 3; the other rows and the *)
(* cursor stay as they were, and any other mode changes nothing.            *)
(***************************************************************************)
\* row r lies in the region mode m erases with the cursor on row y
InDisplay(m, r, y) ==
    \/ m = 0 /\ r >= y
    \/ m = 1 /\ r <= y
    \/ m = 2 \/ m = 3

EraseInDisplay ==
    (last.op = "csi" /\ last.cmd = 74) =>
        LET b == Active(last.before)
            a == Active(t)
            m == LastCount(0)
            y == b.cur.Pos.Y
        IN /\ \A pt \in Points :
                a.cells[pt] = IF InDisplay(m, pt[2], y)
                              THEN BlankCell ELSE b.cells[pt]
           /\ a.cur = b.cur
           /\ m \notin {0, 1, 2, 3} => Same(t, last.before)

\* no parameter with the cursor on the second row and both rows filled
\* before: the cursor's row is cleared and the first row stays filled
EraseInDisplayWitness ==
    /\ last.op = "csi" /\ last.cmd = 74 /\ last.params = <<>>
    /\ Active(last.before).cur.Pos.Y = 1
    /\ Active(last.before).cells[<<0, 1>>] # BlankCell
    /\ Active(t).cells[<<0, 1>>] = BlankCell
    /\ Active(t).cells[<<0, 0>>] # BlankCell

(***************************************************************************)
(* Commands of every kind dispatched to one terminal: the cursor commands,  *)
(* SGR, the erasures, the modes and a final byte handleCsi does not know.   *)
(***************************************************************************)
MaxMixedOps == 3  \* the commands dispatched to one terminal

DispatchAnyCursor ==
    /\ ops < MaxMixedOps
    /\ \E c \in CursorFinals, ps \in {<<>>, <<2>>, <<2, 2>>} : Dispatch(c, ps)

DispatchAnySgr ==
    /\ ops < MaxMixedOps
    /\ \E ps \in {<<1>>, <<0>>, <<41>>, <<38, 5, 7>>, <<1, 38>>, <<99>>, <<10, 26>>} :
          Dispatch(109, ps)

DispatchAnyErase ==
    /\ ops < MaxMixedOps
    /\ \E c \in {74, 75}, ps \in {<<>>, <<1>>} : Dispatch(c, ps)

DispatchAnyMode ==
    /\ ops < MaxMixedOps
    /\ \E c \in ModeFinals,
          ps \in {<<CursorEnableMode>>, <<AltScreenBufferMode>>, <<2004>>} :
          Dispatch(c, ps)

\* 'z', 'L' (dispatched to handleLine, which has no code for it) and 'C'
\* with the marker '?'
UnknownFinals == {122, 76, 67 + 63 * Pow2(MarkerShift)}

DispatchUnknown ==
    /\ ops < MaxMixedOps
    /\ \E c \in UnknownFinals : Dispatch(c, <<1>>)

MixedNext ==
    \/ DispatchAnyCursor \/ DispatchAnySgr \/ DispatchAnyErase
    \/ DispatchAnyMode \/ DispatchUnknown

SpecMixed == TermInit /\ [][MixedNext]_vars

(***************************************************************************)
(* C24: dispatching the last command once more through handleCsi leaves     *)
(* the terminal as the first dispatch left it.                              *)
(***************************************************************************)
Idempotent ==
    last.op = "csi" => handleCsi(t).t = t

(***************************************************************************)
(* C24, amended: the same for every command but the cursor commands that    *)
(* count from the cursor's position, 'A', 'B', 'C', 'D', 'E', 'F', 'I',     *)
(* 'X' and 'e'.                                                             *)
(***************************************************************************)
RelativeFinals == {65, 66, 67, 68, 69, 70, 73, 88, 101}

IdempotentAbsolute ==
    (last.op = "csi" /\ last.cmd \notin RelativeFinals) => handleCsi(t).t = t

\* a cursor position command that moved the cursor
IdempotentAbsoluteWitness ==
    /\ last.op = "csi" /\ last.cmd = 72 /\ last.params = <<2, 2>>
    /\ Active(last.before).cur.Pos # Active(t).cur.Pos
    /\ handleCsi(t).t = t

(***************************************************************************)
(* C25: a command with a final byte that is not interpreted, an SGR command *)
(* whose codes are all undocumented, and an 'h' or 'l' command for a mode   *)
(* without a meaning of its own leave the terminal as it was.               *)
(***************************************************************************)
\* the codes handleSgr has a case for
SgrKnown ==
    (0..9) \cup {22, 23, 24, 25, 27, 28, 29} \cup (30..49) \cup {58, 59}
    \cup (90..97) \cup (100..107)

UnknownFinal == last.op = "csi" /\ last.cmd \in UnknownFinals

UnknownSgr ==
    /\ last.op = "csi" /\ last.cmd = 109 /\ last.params # <<>>
    /\ \A k \in DOMAIN last.params : last.params[k] \notin SgrKnown

UnknownMode ==
    /\ last.op = "csi" /\ last.cmd \in ModeFinals /\ last.params # <<>>
    /\ last.params[1] \notin {CursorEnableMode, 1047, AltScreenBufferMode}

UnrecognizedIgnored ==
    (UnknownFinal \/ UnknownSgr \/ UnknownMode) => Same(t, last.before)

(***************************************************************************)
(* C25, amended: the same, but that the 'h' or 'l' command records the      *)
(* setting of its mode in its table (the DEC private one with the marker    *)
(* '?', the ANSI one without) and leaves everything else as it was.         *)
(***************************************************************************)
\* the setting an 'h' or 'l' command records
LastSetting == IF Command(last.cmd) = 104 THEN ModeSet ELSE ModeReset

UnrecognizedIgnoredButRecorded ==
    /\ (UnknownFinal \/ UnknownSgr) => Same(t, last.before)
    /\ UnknownMode =>
         /\ t.scrs = last.before.scrs /\ t.scr = last.before.scr
         /\ IF Marker(last.cmd) = 63
            THEN /\ t.pmodes = MapSet(last.before.pmodes, last.params[1], LastSetting)
                 /\ t.modes = last.before.modes
            ELSE /\ t.modes = MapSet(last.before.modes, last.params[1], LastSetting)
                 /\ t.pmodes = last.before.pmodes

\* 'CSI ? 1 C' on a terminal with a bold pen and a DEC mode on record: the
\* cursor stays at the origin
UnrecognizedIgnoredWitness ==
    /\ UnknownFinal /\ last.cmd = 67 + 63 * Pow2(MarkerShift)
    /\ Active(t).cur.Pos.X = 0
    /\ Active(t).cur.Pen.bold
    /\ t.pmodes # <<>>

(***************************************************************************)
(* C26: an 'h' or 'l' command with the marker '?' records its setting in    *)
(* the DEC private table and leaves the ANSI table alone; without a marker  *)
(* it records in the ANSI table, leaves the DEC private table alone and     *)
(* neither shows or hides the cursor nor switches or clears a screen, for   *)
(* modes 25, 1047 and 1049 too.                                             *)
(***************************************************************************)
SeparateModeTables ==
    (last.op = "csi" /\ last.cmd \in ModeFinals /\ last.params # <<>>) =>
        LET mode == ParamRead(last.before, last.params[1]) IN
        IF Marker(last.cmd) = 63
        THEN /\ t.pmodes = MapSet(last.before.pmodes, mode, LastSetting)
             /\ t.modes = last.before.modes
        ELSE /\ t.modes = MapSet(last.before.modes, mode, LastSetting)
             /\ t.pmodes = last.before.pmodes
             /\ t.scrs = last.before.scrs
             /\ t.scr = last.before.scr

\* 'CSI 1049 l' with the alternate screen active by 'CSI ? 1049 h': the
\* alternate screen stays active and the DEC private mode stays set
SeparateModeTablesWitness ==
    /\ last.op = "csi" /\ last.cmd = 108 /\ last.params = <<AltScreenBufferMode>>
    /\ last.before.scr = 2
    /\ t.scr = 2
    /\ AltScreenBufferMode \in DOMAIN t.pmodes
    /\ t.pmodes[AltScreenBufferMode] = ModeSet
    /\ t.modes[AltScreenBufferMode] = ModeReset

(***************************************************************************)
(* SixelSequence (sixel.go): the bytes String() and Bytes() write, and the  *)
(* scanner reading them in one call from NormalState with the caller's      *)
(* parser.                                                                  *)
(***************************************************************************)
MaxSixelCap == 4   \* the largest len(p.params) of the caller's parser

\* strconv.Itoa
RECURSIVE Digits(_)
Digits(n) == IF n < 10 THEN <<48 + n>> ELSE Append(Digits(n \div 10), 48 + (n % 10))

Itoa(n) == IF n < 0 THEN <<45>> \o Digits(0 - n) ELSE Digits(n)

\* SixelSequence.buffer()
buffer(s) ==
    <<ESC>>
    \o <<80, 48, 59, 49, 59, 48, 113>>                    \* "P0;1;0q"
    \o <<34>>                                             \* '"'
    \o Itoa(s.PixelWidth) \o <<59>>
    \o Itoa(s.PixelHeight) \o <<59>>
    \o Itoa(s.ImageWidth) \o <<59>>
    \o Itoa(s.ImageHeight)
    \o s.PaletteString
    \o s.PixelString
    \o <<ESC, 92>>                                        \* ESC '\'

String(s) == buffer(s)

Bytes(s) == buffer(s)

\* "PALETTE", "PIXELS" and the sequence of TestSixelSequence with the string
\* the test expects
PaletteText == <<80, 65, 76, 69, 84, 84, 69>>
PixelsText == <<80, 73, 88, 69, 76, 83>>

TestSixel ==
    [PixelWidth |-> 3, PixelHeight |-> 4, ImageWidth |-> 5, ImageHeight |-> 6,
     PaletteString |-> PaletteText, PixelString |-> PixelsText]

TestExpected ==
    <<27, 80, 48, 59, 49, 59, 48, 113, 34, 51, 59, 52, 59, 53, 59, 54>>
    \o PaletteText \o PixelsText \o <<27, 92>>

\* the sequences written: sizes of one and more digits, zero and negative,
\* and strings that are empty, plain, with sixel punctuation ("#1;2" and
\* "~-$"), and one that holds CAN
SixelInputs ==
    [PixelWidth : {0, 3, 12}, PixelHeight : {4}, ImageWidth : {5, 100},
     ImageHeight : {6, -1},
     PaletteString : {<<>>, PaletteText, <<35, 49, 59, 50>>},
     PixelString : {<<>>, PixelsText, <<126, 45, 36>>, <<63, CAN, 63>>}]

SixelInit ==
    /\ buf \in {buffer(s) : s \in SixelInputs}
    /\ cut = Len(buf)
    /\ gc = NoCluster
    /\ pos = 0
    /\ state = NormalState
    /\ p \in {NewParser(c, d) : c \in 1..MaxSixelCap, d \in {0, DataCap}}
    /\ log = <<>>
    /\ dead = FALSE
    /\ cin = NoCodec
    /\ cout = NoCodec
    /\ mev = NoMouse
    /\ mres = NoMouse
    /\ NoTerminal

\* the one call that reads what SixelSequence wrote
DecodeSixel == log = <<>> /\ CallFirst

SixelNext == DecodeSixel

SpecSixel == SixelInit /\ [][SixelNext]_vars

(***************************************************************************)
(* C27: String() and Bytes() write ESC "P0;1;0q", '"', the four sizes in    *)
(* decimal separated by ';', the palette, the pixels and ESC '\'; and when  *)
(* neither string holds ESC, BEL, CAN, SUB or ST, DecodeSequence reads the  *)
(* whole of it from NormalState as one DCS token with final byte 'q' and    *)
(* returns NormalState.                                                     *)
(***************************************************************************)
\* no byte of the string ends or cancels a string sequence
Plain(str) == \A k \in DOMAIN str : str[k] \notin {ESC, BEL, CAN, SUB, ST}

SixelWritten(s) ==
    LET out == String(s)
    IN /\ Bytes(s) = out
       /\ s = TestSixel => out = TestExpected
       /\ SubSeq(out, 1, 9) = <<27, 80, 48, 59, 49, 59, 48, 113, 34>>
       /\ SubSeq(out, Len(out) - 1, Len(out)) = <<27, 92>>
       /\ SubSeq(out, Len(out) - 1 - Len(s.PixelString), Len(out) - 2) = s.PixelString
       /\ SubSeq(out, Len(out) - 1 - Len(s.PixelString) - Len(s.PaletteString),
                 Len(out) - 2 - Len(s.PixelString)) = s.PaletteString
       /\ LET sizes == SubSeq(out, 10, Len(out) - 2 - Len(s.PixelString)
                                               - Len(s.PaletteString))
          IN sizes = Itoa(s.PixelWidth) \o <<59>> \o Itoa(s.PixelHeight) \o <<59>>
                     \o Itoa(s.ImageWidth) \o <<59>> \o Itoa(s.ImageHeight)

SixelSerialization ==
    \A s \in SixelInputs \cup {TestSixel} :
        /\ SixelWritten(s)
        /\ (buf = buffer(s) /\ Plain(s.PaletteString) /\ Plain(s.PixelString)
            /\ log # <<>>)
           => /\ log[1].ret = "token"
              /\ log[1].seq = buf
              /\ log[1].n = Len(buf)
              /\ log[1].state = NormalState
              /\ HasDcsPrefix(log[1].seq)
              /\ Command(log[1].p.cmd) = 113

\* the same with a parser that has room for the three parameters "0;1;0"
SixelSerializationRoomy ==
    \A s \in SixelInputs :
        (buf = buffer(s) /\ Plain(s.PaletteString) /\ Plain(s.PixelString)
         /\ log # <<>> /\ Len(p.params) >= 3)
        => /\ log[1].ret = "token"
           /\ log[1].seq = buf
           /\ log[1].state = NormalState
           /\ log[1].p.cmd = 113

(***************************************************************************)
(* Whole CSI sequences read in one call from NormalState: an introducer,    *)
(* markers, parameters separated by ';', intermediates and a final byte,    *)
(* with parsers of every capacity up to MaxCsiCap.                          *)
(***************************************************************************)
MaxCsiCap == 3       \* the largest len(p.params) of the caller's parser
MaxCsiParams == 3    \* the most parameters of a sequence
MaxMarkers == 2      \* the most marker bytes of a sequence
MaxIntermeds == 2    \* the most intermediate bytes of a sequence

\* the sequences of at most n elements of S
UpTo(S, n) == UNION {[1..j -> S] : j \in 0..n}

\* the parameters "", "7" and "12"
CsiFields == {<<>>, <<55>>, <<49, 50>>}

\* fields joined by ';'
RECURSIVE Joined(_)
Joined(fs) ==
    IF fs = <<>> THEN <<>>
    ELSE IF Len(fs) = 1 THEN fs[1]
    ELSE fs[1] \o <<59>> \o Joined(Tail(fs))

CsiInputs ==
    {intro \o ms \o Joined(fs) \o is \o <<109>> :
        intro \in {<<CSI>>, <<ESC, 91>>},
        ms \in UpTo({60, 63}, MaxMarkers),
        fs \in UpTo(CsiFields, MaxCsiParams),
        is \in UpTo({32, 36}, MaxIntermeds)}

CsiInit ==
    /\ buf \in CsiInputs
    /\ cut = Len(buf)
    /\ gc = NoCluster
    /\ pos = 0
    /\ state = NormalState
    /\ p \in {NewParser(c, DataCap) : c \in 1..MaxCsiCap}
    /\ log = <<>>
    /\ dead = FALSE
    /\ cin = NoCodec
    /\ cout = NoCodec
    /\ mev = NoMouse
    /\ mres = NoMouse
    /\ NoTerminal

\* the one call that reads the sequence
DecodeCsi == log = <<>> /\ CallFirst

CsiNext == DecodeCsi

SpecCsi == CsiInit /\ [][CsiNext]_vars

\* The parts of a CSI sequence, read off its bytes.
\* the first index from j on whose byte is not in S
RECURSIVE Skip(_, _, _)
Skip(b, j, S) == IF j <= Len(b) /\ b[j] \in S THEN Skip(b, j + 1, S) ELSE j

MarkersFrom(b) == IF b[1] = CSI THEN 2 ELSE 3
ParamsFrom(b) == Skip(b, MarkersFrom(b), 60..63)
IntermedsFrom(b) == Skip(b, ParamsFrom(b), (48..57) \cup {59})
FinalAt(b) == Skip(b, IntermedsFrom(b), 32..47)

MarkerBytes(b) == SubSeq(b, MarkersFrom(b), ParamsFrom(b) - 1)
ParamBytes(b) == SubSeq(b, ParamsFrom(b), IntermedsFrom(b) - 1)
IntermedBytes(b) == SubSeq(b, IntermedsFrom(b), FinalAt(b) - 1)

LastOr0(seq) == IF seq = <<>> THEN 0 ELSE seq[Len(seq)]

\* the fields between the ';' of the parameter bytes
RECURSIVE Fields(_, _, _)
Fields(bytes, j, cur) ==
    IF j > Len(bytes) THEN <<cur>>
    ELSE IF bytes[j] = 59 THEN <<cur>> \o Fields(bytes, j + 1, <<>>)
    ELSE Fields(bytes, j + 1, Append(cur, bytes[j]))

\* the decimal value of a field, MissingParam for an empty one
RECURSIVE Decimal(_, _, _)
Decimal(f, j, acc) ==
    IF j > Len(f) THEN acc ELSE Decimal(f, j + 1, acc * 10 + (f[j] - 48))

FieldValue(f) == IF f = <<>> THEN MissingParam ELSE Decimal(f, 1, 0)

(***************************************************************************)
(* C28: a CSI sequence with k parameters, 1 <= k <= len(p.params), leaves   *)
(* paramsLen = k and in slot i the decimal value of the i-th parameter,     *)
(* MissingParam for an omitted one; a sequence without parameter bytes      *)
(* leaves paramsLen = 0.                                                    *)
(***************************************************************************)
ParamCount ==
    log # <<>> =>
        LET bytes == ParamBytes(buf)
            fs == Fields(bytes, 1, <<>>)
            k == Len(fs)
            q == log[1].p
        IN IF bytes = <<>>
           THEN log[1].ret = "token" /\ q.paramsLen = 0
           ELSE k <= Len(q.params) =>
                  /\ log[1].ret = "token"
                  /\ q.paramsLen = k
                  /\ \A j \in 1..k : q.params[j] = FieldValue(fs[j])

(***************************************************************************)
(* C29: after a complete CSI sequence is decoded the parser's cmd is        *)
(* Cmd(last marker or 0, last intermediate or 0, final byte).               *)
(***************************************************************************)
LastMarkerKept ==
    (log # <<>> /\ log[1].ret = "token") =>
        /\ log[1].seq = buf
        /\ log[1].p.cmd = Cmd(LastOr0(MarkerBytes(buf)), LastOr0(IntermedBytes(buf)),
                              buf[FinalAt(buf)])

\* 'CSI < ? 7 $ SP m' decoded: two different markers and two different
\* intermediates
LastMarkerKeptWitness ==
    /\ log # <<>> /\ log[1].ret = "token"
    /\ buf = <<CSI, 60, 63, 55, 36, 32, 109>>
    /\ Marker(log[1].p.cmd) = 63
    /\ Intermediate(log[1].p.cmd) = 32
    /\ Command(log[1].p.cmd) = 109

(***************************************************************************)
(* C30: 'A', 'B', 'C', 'D', 'E', 'F' and 'e' without parameters, and with   *)
(* the first parameter omitted (MissingParam, as in 'CSI ; A'), move the    *)
(* cursor by one cell in their direction, clamped to the screen.            *)
(***************************************************************************)
\* where a count of one takes the cursor from (x, y)
OneCell(cmd, x, y) ==
    CASE cmd = 65 -> [X |-> x, Y |-> max(0, Minus(y, 1))]
      [] cmd = 66 \/ cmd = 101 -> [X |-> x, Y |-> min(TermHeight - 1, Plus(y, 1))]
      [] cmd = 67 -> [X |-> min(TermWidth - 1, Plus(x, 1)), Y |-> y]
      [] cmd = 68 -> [X |-> max(0, Minus(x, 1)), Y |-> y]
      [] cmd = 69 -> [X |-> 0, Y |-> min(TermHeight - 1, Plus(y, 1))]
      [] cmd = 70 -> [X |-> 0, Y |-> max(0, Minus(y, 1))]

DefaultCountOne ==
    (/\ last.op = "csi" /\ last.cmd \in {65, 66, 67, 68, 69, 70, 101}
     /\ (last.params = <<>> \/ last.params[1] = MissingParam))
    => Active(t).cur.Pos = OneCell(last.cmd, Active(last.before).cur.Pos.X,
                                   Active(last.before).cur.Pos.Y)

(***************************************************************************)
(* C31: 'CSI row ; col H' with two or more parameters moves the cursor to   *)
(* column col-1 and row row-1, each clamped to the screen; with fewer than  *)
(* two parameters it moves the cursor to the origin.                        *)
(***************************************************************************)
\* v-1 clamped to [0, hi] for a parameter v, the origin for an omitted one
ClampedIndex(v, hi) ==
    IF v = MissingParam \/ v < 1 THEN 0
    ELSE IF v - 1 > hi THEN hi
    ELSE v - 1

CursorPosition ==
    (last.op = "csi" /\ last.cmd = 72) =>
        Active(t).cur.Pos =
            IF Len(last.params) >= 2
            THEN [X |-> ClampedIndex(last.params[2], TermWidth - 1),
                  Y |-> ClampedIndex(last.params[1], TermHeight - 1)]
            ELSE [X |-> 0, Y |-> 0]

\* 'CSI 5 ; 2 H' from another position: the row is clamped to the last row,
\* the column is the second
CursorPositionWitness ==
    /\ last.op = "csi" /\ last.cmd = 72 /\ last.params = <<5, 2>>
    /\ Active(last.before).cur.Pos # Active(t).cur.Pos
    /\ Active(t).cur.Pos = [X |-> 1, Y |-> TermHeight - 1]

\* 'CSI 5 H' from off the origin: the cursor is at the origin
CursorPositionRowOnly ==
    /\ last.op = "csi" /\ last.cmd = 72 /\ last.params = <<5>>
    /\ Active(last.before).cur.Pos # [X |-> 0, Y |-> 0]
    /\ Active(t).cur.Pos = [X |-> 0, Y |-> 0]

(***************************************************************************)
(* C32: an SGR list with 38, 48 or 58 followed by sub-code 5 and an index,  *)
(* or by sub-code 2 and three components, sets the color of the group to    *)
(* that indexed or RGB color, goes through none of the group's parameters   *)
(* as a code, and goes on with the first parameter after the group.         *)
(***************************************************************************)
\* the index of the first 38, 48 or 58 of a list, read without the has-more
\* flag, or 0
RECURSIVE FirstColor(_, _)
FirstColor(params, j) ==
    IF j > Len(params) THEN 0
    ELSE IF AndParamMask(params[j]) \in {38, 48, 58} THEN j
    ELSE FirstColor(params, j + 1)

\* the number of parameters of the whole group that starts at index j, or 0
\* for a group cut short or with another sub-code
GroupLen(params, j) ==
    IF j + 2 <= Len(params) /\ AndParamMask(params[j + 1]) = 5 THEN 3
    ELSE IF j + 4 <= Len(params) /\ AndParamMask(params[j + 1]) = 2 THEN 5
    ELSE 0

\* the color the group at index j names
GroupColor(params, j) ==
    IF AndParamMask(params[j + 1]) = 5
    THEN ExtendedColor(AndParamMask(params[j + 2]) % 256)
    ELSE RGBA(AndParamMask(params[j + 2]) % 256, AndParamMask(params[j + 3]) % 256,
              AndParamMask(params[j + 4]) % 256)

WithColor(pen, k, c) ==
    IF k = 38 THEN [pen EXCEPT !.fg = c]
    ELSE IF k = 48 THEN [pen EXCEPT !.bg = c]
    ELSE [pen EXCEPT !.ulc = c]

ExtendedColorConsumed ==
    LET ps == last.params
        j == FirstColor(ps, 1)
        n == GroupLen(ps, j)
        pre == SgrLoop(last.before, SubSeq(ps, 1, j - 1), 0,
                       Active(last.before).cur.Pen, <<>>)
        mid == WithColor(pre.pen, AndParamMask(ps[j]), GroupColor(ps, j))
        post == SgrLoop(last.before, SubSeq(ps, j + n, Len(ps)), 0, mid, <<>>)
    IN (/\ last.op = "csi" /\ last.cmd = 109
        /\ j > 0 /\ n > 0
        /\ \A k \in 1..(j - 1) : ~HasMore(ps[k])
        /\ ~post.fault)
       => /\ ~last.fault
          /\ Active(t).cur.Pen = post.pen

(***************************************************************************)
(* C33: SGR '4:n' with n in 0..5 makes the underline style none, single,    *)
(* double, curly, dotted or dashed and leaves every other attribute of the  *)
(* pen as it was.                                                           *)
(***************************************************************************)
UnderlineOnly ==
    (/\ last.op = "csi" /\ last.cmd = 109
     /\ Len(last.params) = 2
     /\ last.params[1] = OrHasMore(4)
     /\ last.params[2] \in 0..5)
    => /\ ~last.fault
       /\ Active(t).cur.Pen =
            [Active(last.before).cur.Pen EXCEPT
                !.ul = <<"none", "single", "double", "curly", "dotted",
                         "dashed">>[last.params[2] + 1]]

(***************************************************************************)
(* C34: every call of DecodeSequence on a non-empty buffer returns; from    *)
(* NormalState it consumes at least one byte, from another state it         *)
(* consumes at least one byte or returns NormalState; so the caller's loop  *)
(* goes on to the end of the input, the counts adding up to its length.     *)
(***************************************************************************)
\* the bytes consumed by the calls up to the k-th
RECURSIVE Consumed(_)
Consumed(k) == IF k = 0 THEN 0 ELSE Consumed(k - 1) + log[k].n

DecoderProgress ==
    /\ \A k \in DOMAIN log :
          log[k].b # <<>> =>
             /\ log[k].ret # "panic"
             /\ log[k].from = NormalState => log[k].n >= 1
             /\ log[k].from # NormalState =>
                   (log[k].n >= 1 \/ log[k].state = NormalState)
    /\ ~dead
    /\ pos = Consumed(Len(log))
    /\ pos <= Len(buf)

(***************************************************************************)
(* C35: a token that one call reads from NormalState leaves the same        *)
(* visible context (cmd, the parameters and the data up to their counts)    *)
(* whatever the calls before left in the parser: the context a new parser   *)
(* is left with by the same bytes.                                          *)
(***************************************************************************)
NoLeakage ==
    \A k \in DOMAIN log :
        (log[k].from = NormalState /\ log[k].ret \in {"token", "grapheme"}) =>
            Visible(log[k].p) =
                Visible(DecodeSequence(log[k].b, NormalState, Fresh, gc).p)

(***************************************************************************)
(* Long parameters: 'CSI <digits> m' and 'CSI <digits> : 1 m', the digits   *)
(* written with leading zeros up to MaxDigits bytes, read in one or two     *)
(* calls by parsers of 1..MaxDigitCap slots.  The values stay within        *)
(* 0..ParamMask, where the slot of a 32-bit and of a 64-bit int agree.      *)
(***************************************************************************)
MaxDigits == 10
MaxDigitCap == 2

\* "7", "12", "2147483646" and "2147483647"
DigitCores ==
    {<<55>>, <<49, 50>>,
     <<50, 49, 52, 55, 52, 56, 51, 54, 52, 54>>,
     <<50, 49, 52, 55, 52, 56, 51, 54, 52, 55>>}

DigitStrings ==
    {[j \in 1..k |-> 48] \o c :
        c \in DigitCores, k \in 0..max(0, MaxDigits - 10)}
    \cup {[j \in 1..k |-> 48] \o c :
        c \in {d \in DigitCores : Len(d) <= 2}, k \in 0..(MaxDigits - 2)}

DigitInputs ==
    {<<CSI>> \o d \o sub \o <<109>> :
        d \in DigitStrings, sub \in {<<>>, <<58, 49>>}}

DigitInit ==
    /\ buf \in DigitInputs
    /\ cut \in 1..Len(buf)
    /\ gc = NoCluster
    /\ pos = 0
    /\ state = NormalState
    /\ p \in {NewParser(c, DataCap) : c \in 1..MaxDigitCap}
    /\ log = <<>>
    /\ dead = FALSE
    /\ cin = NoCodec
    /\ cout = NoCodec
    /\ mev = NoMouse
    /\ mres = NoMouse
    /\ NoTerminal

\* the call on the first read, and the calls on the rest of the sequence
DecodeDigits == CallFirst

DecodeDigitsRest == CallRest

DigitNext == DecodeDigits \/ DecodeDigitsRest

SpecDigits == DigitInit /\ [][DigitNext]_vars

(***************************************************************************)
(* C36: when 'CSI <digits> m' or 'CSI <digits> : ... m' has been read, the  *)
(* first slot, when the parser counts it, is not the missing sentinel,      *)
(* whatever the digits, and its has-more flag is set exactly when ':'       *)
(* followed the digits.                                                     *)
(***************************************************************************)
\* the sequence has been read to its final byte
DigitsRead ==
    /\ log # <<>>
    /\ ~dead
    /\ pos = Len(buf)
    /\ log[Len(log)].ret = "token"


AccumulationInRange ==
    (DigitsRead /\ p.paramsLen >= 1) =>
        /\ AndParamMask(p.params[1]) # MissingParam
        /\ HasMore(p.params[1]) <=> (\E k \in DOMAIN buf : buf[k] = 58)

(***************************************************************************)
(* Mode commands alone: CSI h, CSI l, CSI ? h and CSI ? l with the modes    *)
(* 25, 1047 and 1049, up to MaxModeOps of them in any order.                *)
(***************************************************************************)
MaxModeOps == 3

DispatchModes ==
    /\ ops < MaxModeOps
    /\ \E c \in ModeFinals,
          ps \in {<<CursorEnableMode>>, <<1047>>, <<AltScreenBufferMode>>} :
          Dispatch(c, ps)

ModesNext == DispatchModes

SpecModes == TermInit /\ [][ModesNext]_vars

(***************************************************************************)
(* C37: once DEC private mode 25 has been set or reset, the cursor of the   *)
(* active screen is visible exactly when the private mode table records     *)
(* mode 25 as set, whatever mode commands came in between.                  *)
(***************************************************************************)
VisibilityAgrees ==
    CursorEnableMode \in DOMAIN t.pmodes =>
        (Active(t).cur.Visible <=> t.pmodes[CursorEnableMode] = ModeSet)

====
